---- MODULE Spec2Model ----
(***************************************************************************)
(* A model of qgis_lib_mc: the proxy functions of qgsTreatments.py that    *)
(* marshal parameters and dispatch them to the processing framework, and   *)
(* the layer helpers of qgsUtils.py they rely on.                          *)
(*                                                                         *)
(* Python values whose type decides the control flow are wrapped in a      *)
(* record [t |-> <type>, v |-> <value>]; None is [t |-> "None"].           *)
(* A file path is a sequence of string parts, so that path + ".aux.xml"    *)
(* is Append(path, ".aux.xml").  A raster is followed at one pixel         *)
(* position: every raster operation of the library is pixel-wise.          *)
(***************************************************************************)
EXTENDS Integers, Sequences, FiniteSets, TLC

VARIABLES
    pc,       \* control point of the operation in progress
    call,     \* the operation in progress (or last completed) and its arguments
    trace,    \* what the operation did so far, in order: feedback messages,
              \* utils log lines, delegate invocations
    ret,      \* how the operation ended: a returned value or a raised exception
    content,  \* the file system: path |-> pixel value of the raster stored there
    project,  \* paths of the layers loaded in the QGIS project
    env       \* the host: is GRASS installed, utils.debug_flag

vars == <<pc, call, trace, ret, content, project, env>>

----------------------------------------------------------------------------
(* Bounds of the model *)

\* Valid pixel values are 0..MaxPixel (besides the sentinels).
MaxPixel == 1

\* A vector layer holds at most MaxFeatures features.
MaxFeatures == 2

----------------------------------------------------------------------------
(* Python values *)

None == [t |-> "None"]
Str(s) == [t |-> "str", v |-> s]
Dict(d) == [t |-> "dict", v |-> d]
IsStr(x) == x.t = "str"

Return(x) == [kind |-> "return", val |-> x]
Raise(e) == [kind |-> "raise", exc |-> e]
Pending == [kind |-> "pending"]

\* An event of the trace: who (a feedback channel, the utils log, the
\* processing framework), what, and the message or arguments.
Ev(ch, what, msg) == [ch |-> ch, ev |-> what, msg |-> msg]

\* What the external algorithm does when it is run: it returns a result
\* mapping, or it raises.
Ok(res) == [raises |-> FALSE, res |-> res, exc |-> "none"]
Fails(e) == [raises |-> TRUE, res |-> <<>>, exc |-> e]

----------------------------------------------------------------------------
(* utils: logging and errors (utils.py of the library) *)

\* utils.user_error / utils.internal_error report the message and raise
\* utils.CustomException (the exception qgsUtils.loadLayer catches).
user_error(msg) ==
    [trace |-> <<Ev("utils", "user_error", msg)>>, ret |-> Raise("CustomException")]

----------------------------------------------------------------------------
(* qgsTreatments.applyProcessingAlg *)

\* The channel the messages go to: the caller's, or the global progress
\* feedback when the caller gave none.
feedbackChannel(feedback) ==
    IF feedback.t = "None" THEN "progressFeedback" ELSE feedback.v

\* The context handed to processing.run: the parameter is overwritten with
\* None, so a new context bound to the feedback is always created.
runContext(context, feedback) ==
    [t |-> "QgsProcessingContext", v |-> "new", feedback |-> feedbackChannel(feedback)]

\* A variant that looks up the key 'output' before the key 'OUTPUT'.
returnValue_lowerFirst(res, onlyOutput) ==
    IF onlyOutput
    THEN IF "output" \in DOMAIN res THEN [t |-> "val", v |-> res["output"]]
         ELSE IF "OUTPUT" \in DOMAIN res THEN [t |-> "val", v |-> res["OUTPUT"]]
         ELSE None
    ELSE Dict(res)

\* The value returned on success.
returnValue(res, onlyOutput) ==
    IF onlyOutput
    THEN IF "OUTPUT" \in DOMAIN res THEN [t |-> "val", v |-> res["OUTPUT"]]
         ELSE IF "output" \in DOMAIN res THEN [t |-> "val", v |-> res["output"]]
         ELSE None
    ELSE Dict(res)

\* The messages between the return of processing.run and the return of
\* applyProcessingAlg.
successTrace(ch, alg, res, onlyOutput) ==
    <<Ev(ch, "pushDebugInfo", <<"res1 = ", res>>),
      Ev(ch, "pushInfo", <<"Call to ", alg, " successful">>),
      Ev("progressFeedback", "endJob", <<>>),
      Ev(ch, "pushDebugInfo", <<"res = ", res>>)>>
    \o (IF onlyOutput /\ "OUTPUT" \in DOMAIN res
        THEN <<Ev(ch, "pushDebugInfo", <<"output = ", res["OUTPUT"]>>),
               Ev(ch, "pushDebugInfo", <<"output type = ", res["OUTPUT"]>>)>>
        ELSE <<>>)

\* A variant that logs the warning and swallows the exception.
exceptClause_swallow(alg, e) ==
    [trace |-> <<Ev("utils", "warn", <<"Failed to call ", alg, " : ", e>>)>>,
     ret |-> Return(None)]

\* The except clause: the warning, then the exception raised again.
exceptClause(alg, e) ==
    [trace |-> <<Ev("utils", "warn", <<"Failed to call ", alg, " : ", e>>)>>,
     ret |-> Raise(e)]

\* The finally clause.
finallyClause(ch, alg) ==
    <<Ev(ch, "pushDebugInfo", <<"End run ", alg>>)>>

\* The try block up to and including processing.run.
tryRun(ch, provider, alg, parameters, context, feedback, outcome) ==
    <<Ev(ch, "pushInfo", <<"Calling processing algorithm '", provider, ":", alg, "'">>),
      Ev("utils", "debug", <<"context = ", None>>),
      Ev(ch, "pushDebugInfo", <<"complete_name = ", provider, ":", alg>>),
      Ev(ch, "pushDebugInfo", <<"feedback = ", ch>>),
      Ev("processing", "run",
         [name |-> <<provider, ":", alg>>, parameters |-> parameters,
          context |-> runContext(context, feedback), feedback |-> ch]),
      IF outcome.raises
      THEN Ev("processing", "raised", outcome.exc)
      ELSE Ev("processing", "returned", outcome.res)>>

\* applyProcessingAlg(provider,alg_name,parameters,context,feedback,onlyOutput)
\* with the external algorithm behaving as `outcome`.  When alg_name is not
\* a string, provider + ":" + alg_name raises TypeError inside the try
\* block; the except and the finally clauses concatenate alg_name too and
\* raise TypeError in their turn, before they log anything.
applyProcessingAlg(provider, alg_name, parameters, context, feedback, onlyOutput, outcome) ==
    LET ch == feedbackChannel(feedback)
        head == (IF feedback.t = "None"
                 THEN <<Ev("utils", "debug", <<"initializing feedback">>)>>
                 ELSE <<>>)
                \o <<Ev(ch, "pushDebugInfo", <<"parameters : ", parameters>>)>>
    IN  IF ~IsStr(alg_name)
        THEN [trace |-> head, ret |-> Raise("TypeError")]
        ELSE LET alg == alg_name.v
                 body == tryRun(ch, provider, alg, parameters, context, feedback, outcome)
             IN  IF outcome.raises
                 THEN LET h == exceptClause(alg, outcome.exc)
                      IN  [trace |-> head \o body \o h.trace \o finallyClause(ch, alg),
                           ret |-> h.ret]
                 ELSE [trace |-> head \o body
                                 \o successTrace(ch, alg, outcome.res, onlyOutput)
                                 \o finallyClause(ch, alg),
                       ret |-> Return(returnValue(outcome.res, onlyOutput))]

----------------------------------------------------------------------------
(* GRASS helpers *)

\* A variant that asks for the GRASS utilities only, not for an installed
\* version.
checkGrass7Installed_utilsOnly(grass) ==
    IF grass \in {"installed", "noversion"}
    THEN [trace |-> <<Ev("utils", "debug", <<"GRASS version = ", grass>>)>>,
          ret |-> Return(None)]
    ELSE user_error(<<"GRASS is not installed, please launch QGIS with GRASS">>)

\* checkGrass7Installed: a user error unless the GRASS utilities exist and
\* report an installed version.
checkGrass7Installed(grass) ==
    IF grass = "installed"
    THEN [trace |-> <<Ev("utils", "debug", <<"GRASS version = ", grass>>)>>,
          ret |-> Return(None)]
    ELSE user_error(<<"GRASS is not installed, please launch QGIS with GRASS">>)

\* applyGrassAlg(parameters,alg_name,context,feedback)
applyGrassAlg(parameters, alg_name, context, feedback, grass, outcome) ==
    LET chk == checkGrass7Installed(grass)
    IN  IF chk.ret.kind = "raise"
        THEN chk
        ELSE LET r == applyProcessingAlg("grass7", alg_name, parameters,
                                         context, feedback, TRUE, outcome)
             IN  [trace |-> chk.trace \o r.trace, ret |-> r.ret]

\* applyRNull(in_path,new_val,out_path,context,feedback)
applyRNull(in_path, new_val, out_path, context, feedback, grass, outcome) ==
    LET parameters == [map |-> in_path, null |-> new_val, output |-> out_path]
    IN  applyGrassAlg(Dict(parameters), Str("r.null"), context, feedback, grass, outcome)

\* applyRSetNull(in_path,new_val,out_path,context,feedback)
applyRSetNull(in_path, new_val, out_path, context, feedback, grass, outcome) ==
    LET parameters == [map |-> in_path, setnull |-> new_val, output |-> out_path]
    IN  applyGrassAlg(Dict(parameters), Str("r.null"), context, feedback, grass, outcome)

\* applyResample(in_path,out_path,context,feedback): the algorithm name is
\* passed first and the parameters second, the reverse of applyGrassAlg's
\* parameter order.
applyResample(in_path, out_path, context, feedback, grass, outcome) ==
    LET parameters == [input |-> in_path, output |-> out_path, overwrite |-> TRUE,
                       GRASS_REGION_CELLSIZE_PARAMETER |-> 50,
                       GRASS_SNAP_TOLERANCE_PARAMETER |-> -1,
                       GRASS_MIN_AREA_PARAMETER |-> 0]
    IN  applyGrassAlg(Str("r.resample"), Dict(parameters), context, feedback, grass, outcome)

\* applyReclassGdal(in_path,out_path,rules_file,title,context,feedback):
\* name first and parameters second, as applyResample.
applyReclassGdal(in_path, out_path, rules_file, title, context, feedback, grass, outcome) ==
    LET parameters == [input |-> in_path, output |-> out_path, rules |-> rules_file,
                       title |-> title,
                       GRASS_REGION_CELLSIZE_PARAMETER |-> 50,
                       GRASS_SNAP_TOLERANCE_PARAMETER |-> -1,
                       GRASS_MIN_AREA_PARAMETER |-> 0]
    IN  applyGrassAlg(Str("r.reclass"), Dict(parameters), context, feedback, grass, outcome)

----------------------------------------------------------------------------
(* The inputs the operations are called with *)

Providers == {"gdal", "native"}
AlgNames == {"rastercalculator", "buffer"}
Contexts == {None, [t |-> "QgsProcessingContext", v |-> "caller"]}
Feedbacks == {None, [t |-> "QgsProcessingFeedback", v |-> "callerFeedback"]}
GrassStates == {"installed", "noversion", "missing"}

\* The host: the state of GRASS, utils.debug_flag, and the module global
\* gdal_calc_cmd, which is None until the host sets it.
Envs == [grass : GrassStates, debug_flag : BOOLEAN,
         gdal_calc_cmd : {None, Str("gdal_calc.py")}]

\* Result mappings of an external algorithm: with the key OUTPUT, with the
\* key output, with both, with neither.
Results ==
    { "OUTPUT" :> <<"res.tif">>,
      "output" :> <<"res_lower.tif">>,
      ("OUTPUT" :> <<"res.tif">>) @@ ("output" :> <<"res_lower.tif">>),
      "TOTAL_PIXEL_COUNT" :> <<"12">>,
      <<>> }

DelegateExceptions == {"QgsProcessingException", "OSError"}

Outcomes == {Ok(r) : r \in Results} \cup {Fails(e) : e \in DelegateExceptions}

SomeParameters == [INPUT |-> <<"A.tif">>, OUTPUT |-> <<"out.tif">>]

----------------------------------------------------------------------------
(* The state machine *)

Init ==
    /\ pc = "ready"
    /\ call = [op |-> "none"]
    /\ trace = <<>>
    /\ ret = Pending
    /\ content = <<>>
    /\ project = {}
    /\ env \in Envs

CanCall == pc \in {"ready", "done"}

\* A direct call of applyProcessingAlg.
CallProcessingAlg ==
    /\ CanCall
    /\ \E provider \in Providers, alg \in AlgNames, context \in Contexts,
          feedback \in Feedbacks, onlyOutput \in BOOLEAN, outcome \in Outcomes :
          LET r == applyProcessingAlg(provider, Str(alg), Dict(SomeParameters),
                                      context, feedback, onlyOutput, outcome)
          IN  /\ call' = [op |-> "applyProcessingAlg", provider |-> provider,
                          alg_name |-> alg, context |-> context,
                          feedback |-> feedback, onlyOutput |-> onlyOutput]
              /\ trace' = r.trace
              /\ ret' = r.ret
    /\ pc' = "done"
    /\ UNCHANGED <<content, project, env>>

\* A call of one of the GRASS helpers, which reach applyProcessingAlg
\* through applyGrassAlg.
CallGrassHelper ==
    /\ CanCall
    /\ \E helper \in {"applyRNull", "applyRSetNull", "applyResample", "applyReclassGdal"},
          context \in Contexts, feedback \in Feedbacks, outcome \in Outcomes :
          LET r == CASE helper = "applyRNull" ->
                          applyRNull(<<"A.tif">>, 0, <<"out.tif">>, context, feedback,
                                     env.grass, outcome)
                     [] helper = "applyRSetNull" ->
                          applyRSetNull(<<"A.tif">>, 0, <<"out.tif">>, context, feedback,
                                        env.grass, outcome)
                     [] helper = "applyResample" ->
                          applyResample(<<"A.tif">>, <<"out.tif">>, context, feedback,
                                        env.grass, outcome)
                     [] helper = "applyReclassGdal" ->
                          applyReclassGdal(<<"A.tif">>, <<"out.tif">>, <<"rules.txt">>,
                                           "reclass", context, feedback, env.grass, outcome)
          IN  /\ call' = [op |-> helper, context |-> context, feedback |-> feedback]
              /\ trace' = r.trace
              /\ ret' = r.ret
    /\ pc' = "done"
    /\ UNCHANGED <<content, project, env>>

NextAlg == CallProcessingAlg \/ CallGrassHelper

SpecAlg == Init /\ [][NextAlg]_vars

----------------------------------------------------------------------------
(* Reading the trace *)

IsStart(e) == e.ev = "pushInfo" /\ e.msg[1] = "Calling processing algorithm '"
IsEnd(e) == e.ev = "pushDebugInfo" /\ e.msg[1] = "End run "
IsRun(e) == e.ch = "processing" /\ e.ev = "run"
IsReturned(e) == e.ch = "processing" /\ e.ev = "returned"
IsRaised(e) == e.ch = "processing" /\ e.ev = "raised"
IsWarn(e) == e.ch = "utils" /\ e.ev = "warn"
\* The first message of applyProcessingAlg on every path.
IsEntry(e) == e.ev = "pushDebugInfo" /\ e.msg[1] = "parameters : "

Starts == {i \in DOMAIN trace : IsStart(trace[i])}
Ends == {i \in DOMAIN trace : IsEnd(trace[i])}
Runs == {i \in DOMAIN trace : IsRun(trace[i])}
Returneds == {i \in DOMAIN trace : IsReturned(trace[i])}
Raiseds == {i \in DOMAIN trace : IsRaised(trace[i])}
Warns == {i \in DOMAIN trace : IsWarn(trace[i])}
Entries == {i \in DOMAIN trace : IsEntry(trace[i])}

SingleDispatch == call.op \in {"applyProcessingAlg", "applyRNull", "applyRSetNull",
                               "applyResample", "applyReclassGdal"}

----------------------------------------------------------------------------
(* Claims on applyProcessingAlg *)

\* C1: every call of applyProcessingAlg emits exactly one start notification
\* and exactly one end notification, the start before the external algorithm
\* is invoked and the end after it returned or raised.
C1_StartEndPair ==
    (pc = "done" /\ SingleDispatch /\ Entries # {}) =>
        /\ Cardinality(Starts) = 1
        /\ Cardinality(Ends) = 1
        /\ \A i \in Starts, k \in Runs : i < k
        /\ \A j \in Ends, k \in Returneds \cup Raiseds : k < j

\* C2: when the external algorithm raises, a warning naming the algorithm
\* and the exception text is logged, the same exception is raised to the
\* caller, the external algorithm was invoked exactly once and no value is
\* returned.
C2_DelegateFailureReraised ==
    (pc = "done" /\ SingleDispatch /\ Raiseds # {}) =>
        /\ Cardinality(Runs) = 1
        /\ Cardinality(Raiseds) = 1
        /\ \A k \in Raiseds, r \in Runs :
              /\ ret.kind = "raise"
              /\ ret.exc = trace[k].msg
              /\ \E w \in Warns :
                    /\ k < w
                    /\ trace[w].msg[2] = trace[r].msg.name[3]
                    /\ trace[w].msg[4] = trace[k].msg

C2_Witness ==
    /\ pc = "done"
    /\ call.op = "applyProcessingAlg"
    /\ Raiseds # {}
    /\ ret.kind = "raise"
    /\ ret.exc = "OSError"

\* C10: on success applyProcessingAlg returns, with onlyOutput, the value
\* under 'OUTPUT' if that key is present, else the value under 'output' if
\* present, else None; without onlyOutput, the whole result mapping.
C10_ReturnedValue ==
    (pc = "done" /\ call.op = "applyProcessingAlg" /\ Returneds # {}) =>
        \A k \in Returneds :
            LET res == trace[k].msg
            IN  /\ ret.kind = "return"
                /\ IF ~call.onlyOutput
                   THEN ret.val.t = "dict" /\ ret.val.v = res
                   ELSE IF "OUTPUT" \in DOMAIN res
                   THEN ret.val.t = "val" /\ ret.val.v = res["OUTPUT"]
                   ELSE IF "output" \in DOMAIN res
                   THEN ret.val.t = "val" /\ ret.val.v = res["output"]
                   ELSE ret.val.t = "None"

\* A successful call with onlyOutput whose result holds both keys.
C10_Witness ==
    /\ pc = "done"
    /\ call.op = "applyProcessingAlg"
    /\ call.onlyOutput
    /\ \E k \in Returneds : DOMAIN trace[k].msg = {"OUTPUT", "output"}
    /\ ret.kind = "return"

----------------------------------------------------------------------------
(* qgsUtils: files and loaded layers *)

\* path + ".aux.xml"
aux_name(path) == Append(path, ".aux.xml")

\* utils.removeFile: the file is gone afterwards, whether it existed or not.
removeFile(files, path) == [f \in (DOMAIN files) \ {path} |-> files[f]]

isfile(files, path) == path \in DOMAIN files

\* getLayerByFilename / isLayerLoaded: a layer of the project has this path.
isLayerLoaded(layers, fname) == \E layer_path \in layers : layer_path = fname

\* A variant that removes the primary file only.
removeRaster_primaryOnly(files, layers, path) ==
    IF isLayerLoaded(layers, path)
    THEN LET err == user_error(<<"Layer ", path, " is already loaded in QGIS, please remove it">>)
         IN  [files |-> files, trace |-> err.trace, ret |-> err.ret]
    ELSE [files |-> removeFile(files, path), trace |-> <<>>, ret |-> Return(None)]

\* removeRaster(path): a user error when the layer is loaded, otherwise the
\* file and its .aux.xml are removed.
removeRaster(files, layers, path) ==
    IF isLayerLoaded(layers, path)
    THEN LET err == user_error(<<"Layer ", path, " is already loaded in QGIS, please remove it">>)
         IN  [files |-> files, trace |-> err.trace, ret |-> err.ret]
    ELSE [files |-> removeFile(removeFile(files, path), aux_name(path)),
          trace |-> <<>>, ret |-> Return(None)]

\* Writing a raster file.
writeRaster(files, path, pixel) == (path :> pixel) @@ files

----------------------------------------------------------------------------
(* Rasters and the raster calculator *)

\* The module's default no-data value, nodata_val = '-9999'.  A no-data
\* pixel of a raster is stored as this value.
nodata_val == -9999

\* The internal sentinel of applyRasterCalcAB_ABNull.
tmp_no_data_val == -998

\* The internal sentinel of the legacy applyGdalCalcAB.
tmp_no_data_val_legacy == -1

PixelValues == {nodata_val, tmp_no_data_val, tmp_no_data_val_legacy} \cup (0 .. MaxPixel)

IsNoData(v) == v = nodata_val

\* The comparison functions of the calculator: 1 where true, 0 where false.
equal(x, y) == IF x = y THEN 1 ELSE 0
not_equal(x, y) == IF x # y THEN 1 ELSE 0
less(x, y) == IF x < y THEN 1 ELSE 0
less_equal(x, y) == IF x <= y THEN 1 ELSE 0
logical_and(x, y) == IF x # 0 /\ y # 0 THEN 1 ELSE 0

\* The expressions of applyRasterCalcMin and applyRasterCalcMax.
min_expr == "A*less_equal(A,B) + B*less(B,A)"
max_expr == "B*less_equal(A,B) + A*less(B,A) "

\* The expression of the legacy applyMaxGdal (applyMinGdal has min_expr).
max_expr_gdal == "B*less_equal(A,B) + A*less(B,A)"

\* The caller's expressions.
Exprs == {min_expr, max_expr, "A+B", "A*B"}

\* A variant whose min expression has the gate less(A,B) for A.
evalExpr_strictMin(expr, A, B) ==
    CASE expr = min_expr -> A * less(A, B) + B * less(B, A)
      [] expr = max_expr -> B * less_equal(A, B) + A * less(B, A)
      [] expr = max_expr_gdal -> B * less_equal(A, B) + A * less(B, A)
      [] expr = "A+B" -> A + B
      [] expr = "A*B" -> A * B

\* The calculator on an expression over A and B.
evalExpr(expr, A, B) ==
    CASE expr = min_expr -> A * less_equal(A, B) + B * less(B, A)
      [] expr = max_expr -> B * less_equal(A, B) + A * less(B, A)
      [] expr = max_expr_gdal -> B * less_equal(A, B) + A * less(B, A)
      [] expr = "A+B" -> A + B
      [] expr = "A*B" -> A * B

\* The three indicator terms of expr_wrap: equal(A,nd),
\* logical_and(not_equal(A,nd),equal(B,nd)) and
\* logical_and(not_equal(A,nd),not_equal(B,nd)).
indicators(nd, A, B) ==
    <<equal(A, nd),
      logical_and(not_equal(A, nd), equal(B, nd)),
      logical_and(not_equal(A, nd), not_equal(B, nd))>>

\* A variant whose first term keeps A instead of B.
expr_wrap_keepsA(nd, expr, A, B) ==
    equal(A, nd) * A
    + logical_and(not_equal(A, nd), equal(B, nd)) * A
    + logical_and(not_equal(A, nd), not_equal(B, nd)) * evalExpr(expr, A, B)

\* A variant whose second term is not guarded by not_equal(A,nd).
expr_wrap_unguarded(nd, expr, A, B) ==
    equal(A, nd) * B
    + equal(B, nd) * A
    + logical_and(not_equal(A, nd), not_equal(B, nd)) * evalExpr(expr, A, B)

\* expr_wrap of applyRasterCalcAB_ABNull, on the pixels A and B:
\* equal(A,nd) * B + logical_and(not_equal(A,nd),equal(B,nd)) * A
\*   + logical_and(not_equal(A,nd),not_equal(B,nd)) * (expr)
expr_wrap(nd, expr, A, B) ==
    equal(A, nd) * B
    + logical_and(not_equal(A, nd), equal(B, nd)) * A
    + logical_and(not_equal(A, nd), not_equal(B, nd)) * evalExpr(expr, A, B)

\* A variant whose second term is not masked by (A!=tmp).
reset_nodata_expr_unmasked(tmp, nodata, A) ==
    equal(A, tmp) * nodata + A

\* reset_nodata_expr: (A==tmp)*nodata_val+(A!=tmp)*A
reset_nodata_expr(tmp, nodata, A) ==
    equal(A, tmp) * nodata + not_equal(A, tmp) * A

\* A variant that leaves the no-data pixels as they are.
rNull_identity(pixel, new_val) == pixel

\* grass7:r.null with null=new_val: the no-data pixels take new_val.
rNull(pixel, new_val) == IF IsNoData(pixel) THEN new_val ELSE pixel

\* grass7:r.null with setnull=val: the pixels equal to val become no-data.
rSetNull(pixel, val) == IF pixel = val THEN nodata_val ELSE pixel

----------------------------------------------------------------------------
(* The external engine: what a dispatched algorithm does to the files *)

\* The gates of the three terms of the expression of
\* applyFilterGdalFromMaxVal: less_equal(A,max_val)*less_equal(0,A),
\* less(max_val,A) and less(A,0).
filterGates(max_val, A) ==
    <<less_equal(A, max_val) * less_equal(0, A), less(max_val, A), less(A, 0)>>

\* A variant whose first term is not gated by less_equal(0,A).
filterExpr_noLowerGate(max_val, A) ==
    A * less_equal(A, max_val) + nodata_val * less(max_val, A) + nodata_val * less(A, 0)

\* (A*less_equal(A,max_val)*less_equal(0,A)) + (nodata_val*less(max_val,A))
\*   + (nodata_val*less(A,0))
filterExpr(max_val, A) ==
    A * less_equal(A, max_val) * less_equal(0, A)
    + nodata_val * less(max_val, A)
    + nodata_val * less(A, 0)

\* The calculator on the FORMULA the library built.
calc(formula, A, B) ==
    CASE formula.kind = "filter_max_val" -> filterExpr(formula.max_val, A)
      [] formula.kind = "expr_wrap" -> expr_wrap(formula.nd, formula.expr, A, B)
      [] formula.kind = "reset_nodata_expr" ->
             reset_nodata_expr(formula.tmp, formula.nodata, A)
      [] formula.kind = "expr" -> evalExpr(formula.expr, A, B)

\* The algorithm `alg` run on `parameters`.
runDelegate(files, alg, parameters) ==
    CASE alg = "rastercalculator" ->
             writeRaster(files, parameters.OUTPUT,
                         calc(parameters.FORMULA, files[parameters.INPUT_A],
                              IF "INPUT_B" \in DOMAIN parameters
                              THEN files[parameters.INPUT_B] ELSE 0))
      [] alg = "warpreproject" ->
             writeRaster(files, parameters.OUTPUT, files[parameters.INPUT])
      [] alg = "rasterize" ->
             writeRaster(files, parameters.OUTPUT, parameters.BURN)
      [] alg = "cliprasterbymasklayer" ->
             writeRaster(files, parameters.OUTPUT, files[parameters.INPUT])
      [] alg = "r.null" ->
             writeRaster(files, parameters.output,
                         IF "null" \in DOMAIN parameters
                         THEN rNull(files[parameters.map], parameters.null)
                         ELSE rSetNull(files[parameters.map], parameters.setnull))

\* The files after a helper ran with result r: the dispatched algorithm
\* acted if it was run and returned.
filesAfter(files, r) ==
    IF \E i \in DOMAIN r.trace : IsReturned(r.trace[i])
    THEN LET i == CHOOSE i \in DOMAIN r.trace : IsRun(r.trace[i])
         IN  runDelegate(files, r.trace[i].msg.name[3], r.trace[i].msg.parameters.v)
    ELSE files

----------------------------------------------------------------------------
(* The raster calculator helpers *)

\* applyRasterCalc(input_a,output,expr,nodata_val,out_type,context,feedback)
applyRasterCalc(input_a, output, expr, nodata, out_type, context, feedback, outcome) ==
    LET parameters == [BAND_A |-> 1, FORMULA |-> expr, INPUT_A |-> input_a,
                       NO_DATA |-> nodata, OUTPUT |-> output, RTYPE |-> out_type]
        r == applyProcessingAlg("gdal", Str("rastercalculator"), Dict(parameters),
                                context, feedback, TRUE, outcome)
    IN  [trace |-> <<Ev("progressFeedback", "setSubText", <<"Raster Calc">>)>> \o r.trace,
         ret |-> r.ret]

\* The temporary files of applyRasterCalcAB_ABNull
\* (QgsProcessingUtils.generateTempFilename).
nonull_a == <<"processing_tmp", "nonull_a.tif">>
nonull_b == <<"processing_tmp", "nonull_b.tif">>
nonull_ab == <<"processing_tmp", "nonull_ab.tif">>
nonull_reset == <<"processing_tmp", "nonull_reset.tif">>

\* The dispatch of the combined formula in applyRasterCalcAB_ABNull.
calcAB_ABNull(expr, nodata, out_type, context, feedback, outcome) ==
    LET parameters == [BAND_A |-> 1, BAND_B |-> 1,
                       FORMULA |-> [kind |-> "expr_wrap", nd |-> tmp_no_data_val,
                                    expr |-> expr],
                       INPUT_A |-> nonull_a, INPUT_B |-> nonull_b,
                       NO_DATA |-> nodata, OUTPUT |-> nonull_ab, RTYPE |-> out_type]
    IN  applyProcessingAlg("gdal", Str("rastercalculator"), Dict(parameters),
                           context, feedback, TRUE, outcome)

\* The reset step of applyRasterCalcAB_ABNull:
\* applyRasterCalc(nonull_ab,output,reset_nodata_expr), every other
\* argument left to its default.
resetAB_ABNull(output, nodata, outcome) ==
    applyRasterCalc(nonull_ab, output,
                    [kind |-> "reset_nodata_expr", tmp |-> tmp_no_data_val,
                     nodata |-> nodata],
                    nodata_val, 5, None, None, outcome)

----------------------------------------------------------------------------
(* The binary raster combinations, step by step *)

InA == <<"A.tif">>
InB == <<"B.tif">>
OutPath == <<"out.tif">>

\* The no-data values a caller passes as nodata_val.
NodataVals == {nodata_val, tmp_no_data_val, tmp_no_data_val_legacy}

\* What a dispatched algorithm writing `path` does: it returns its result
\* mapping or it raises.
GdalOutcomes(path) == {Ok("OUTPUT" :> path), Fails("QgsProcessingException")}
GrassOutcomes(path) == {Ok("output" :> path), Fails("QgsProcessingException")}

\* Before a combination: the two inputs are on disk; the output may exist
\* already and may be loaded in the project.
InitCalc ==
    /\ pc = "ready"
    /\ call = [op |-> "none"]
    /\ trace = <<>>
    /\ ret = Pending
    /\ \E a \in PixelValues, b \in PixelValues, out \in {"absent", "file", "loaded"} :
          /\ content = IF out = "absent"
                       THEN (InA :> a) @@ (InB :> b)
                       ELSE (InA :> a) @@ (InB :> b) @@ (OutPath :> 0)
                            @@ (aux_name(OutPath) :> 0)
          /\ project = IF out = "loaded" THEN {OutPath} ELSE {}
    /\ env \in Envs

\* A variant in which an operation goes on to its next step after a helper
\* raised.
Advance_goesOn(r, next_pc, next_ret) ==
    /\ trace' = trace \o r.trace
    /\ ret' = next_ret
    /\ pc' = next_pc
    /\ content' = IF r.ret.kind = "raise" THEN content ELSE filesAfter(content, r)
    /\ UNCHANGED <<call, project, env>>

\* The step of an operation that ran a helper with result r: a raised
\* exception ends the operation and reaches the caller; otherwise the
\* dispatched algorithm has acted and the operation goes on.
Advance(r, next_pc, next_ret) ==
    /\ trace' = trace \o r.trace
    /\ IF r.ret.kind = "raise"
       THEN /\ ret' = r.ret
            /\ pc' = "done"
            /\ content' = content
       ELSE /\ ret' = next_ret
            /\ pc' = next_pc
            /\ content' = filesAfter(content, r)
    /\ UNCHANGED <<call, project, env>>

ExprsOf(op) ==
    CASE op = "applyRasterCalcMin" -> {min_expr}
      [] op = "applyRasterCalcMax" -> {max_expr}
      [] OTHER -> Exprs

\* applyRasterCalcAB_ABNull, applyRasterCalcMin, applyRasterCalcMax: the
\* call, up to the first dispatch.  applyRasterCalcMin first calls
\* qgsUtils.getRastersMinMax, which qgsUtils does not define: AttributeError.
CallRasterCalc ==
    /\ pc = "ready"
    /\ \E op \in {"applyRasterCalcAB_ABNull", "applyRasterCalcMin", "applyRasterCalcMax"},
          nodata \in NodataVals, context \in Contexts, feedback \in Feedbacks :
       \E expr \in ExprsOf(op) :
          /\ call' = [op |-> op, input_a |-> InA, input_b |-> InB, output |-> OutPath,
                      expr |-> expr, nodata_val |-> nodata, out_type |-> 5,
                      context |-> context, feedback |-> feedback]
          /\ IF op = "applyRasterCalcMin"
             THEN /\ ret' = Raise("AttributeError")
                  /\ pc' = "done"
                  /\ UNCHANGED <<trace, content>>
             ELSE IF isfile(content, OutPath)
             THEN LET rm == removeRaster(content, project, OutPath)
                  IN  /\ trace' = rm.trace
                      /\ content' = rm.files
                      /\ ret' = IF rm.ret.kind = "raise" THEN rm.ret ELSE ret
                      /\ pc' = IF rm.ret.kind = "raise" THEN "done" ELSE "rnull_a"
             ELSE /\ pc' = "rnull_a"
                  /\ UNCHANGED <<trace, ret, content>>
    /\ UNCHANGED <<project, env>>

\* applyRNull(input_a,tmp_no_data_val,nonull_a)
StepRNullA ==
    /\ pc = "rnull_a"
    /\ \E outcome \in GrassOutcomes(nonull_a) :
          Advance(applyRNull(call.input_a, tmp_no_data_val, nonull_a, None, None,
                             env.grass, outcome),
                  "rnull_b", ret)

\* applyRNull(input_b,tmp_no_data_val,nonull_b)
StepRNullB ==
    /\ pc = "rnull_b"
    /\ \E outcome \in GrassOutcomes(nonull_b) :
          Advance(applyRNull(call.input_b, tmp_no_data_val, nonull_b, None, None,
                             env.grass, outcome),
                  "calc_ab", ret)

\* applyProcessingAlg("gdal","rastercalculator",parameters,context,feedback)
StepCalcAB ==
    /\ pc = "calc_ab"
    /\ \E outcome \in GdalOutcomes(nonull_ab) :
          Advance(calcAB_ABNull(call.expr, call.nodata_val, call.out_type,
                                call.context, call.feedback, outcome),
                  "reset", ret)

\* applyRasterCalc(nonull_ab,output,reset_nodata_expr); return output
StepReset ==
    /\ pc = "reset"
    /\ \E outcome \in GdalOutcomes(call.output) :
          Advance(resetAB_ABNull(call.output, call.nodata_val, outcome),
                  "done", Return([t |-> "val", v |-> call.output]))


----------------------------------------------------------------------------
(* The legacy combination applyGdalCalcAB, through the gdal_calc command *)

\* utils.mkTmpPath(path,suffix): a path derived from `path` by the suffix.
mkTmpPath(path, suffix) == Append(path, suffix)

\* utils.executeCmd(cmd_args): the command is run; a command that fails is
\* reported as a user error.  With gdal_calc_cmd None there is no command
\* to run: TypeError.
executeCmd(cmd_args, outcome) ==
    IF cmd_args.cmd.t = "None"
    THEN [trace |-> <<>>, ret |-> Raise("TypeError")]
    ELSE IF outcome.raises
    THEN LET err == user_error(<<outcome.exc>>)
         IN  [trace |-> <<Ev("subprocess", "run", cmd_args),
                          Ev("subprocess", "raised", outcome.exc)>> \o err.trace,
              ret |-> err.ret]
    ELSE [trace |-> <<Ev("subprocess", "run", cmd_args),
                      Ev("subprocess", "returned", outcome.res)>>,
          ret |-> Return(None)]

\* gdal_calc on its arguments.
runCmd(files, cmd_args) ==
    writeRaster(files, cmd_args.outfile,
                calc(cmd_args.calc, files[cmd_args.A],
                     IF "B" \in DOMAIN cmd_args THEN files[cmd_args.B] ELSE 0))

\* The files after a command step with result r.
filesAfterCmd(files, r) ==
    IF \E i \in DOMAIN r.trace : r.trace[i].ch = "subprocess" /\ r.trace[i].ev = "returned"
    THEN LET i == CHOOSE i \in DOMAIN r.trace :
                      r.trace[i].ch = "subprocess" /\ r.trace[i].ev = "run"
         IN  runCmd(files, r.trace[i].msg)
    ELSE files

\* The gdal_calc command of applyGdalCalcAB on the two sentinel-filled inputs.
gdalCalcAB_cmd(cmd, in1, in2, out, expr) ==
    [cmd |-> cmd, A |-> in1, B |-> in2, NoDataValue |-> nodata_val,
     overwrite |-> TRUE, outfile |-> out, calc |-> [kind |-> "expr", expr |-> expr]]

\* The gdal_calc command of applyGdalCalc(in_path,out_path,expr).
gdalCalc_cmd(cmd, in_path, out_path, expr) ==
    [cmd |-> cmd, A |-> in_path, type |-> "Int32", outfile |-> out_path,
     NoDataValue |-> nodata_val, overwrite |-> TRUE, calc |-> expr]

\* qgsUtils.loadRasterLayer(out_path) followed by addMapLayer.
loadRaster(layers, path) == layers \cup {path}

\* The command step of an operation: as Advance, for a command.
AdvanceCmd(r, next_pc) ==
    /\ trace' = trace \o r.trace
    /\ IF r.ret.kind = "raise"
       THEN /\ ret' = r.ret
            /\ pc' = "done"
            /\ content' = content
       ELSE /\ ret' = ret
            /\ pc' = next_pc
            /\ content' = filesAfterCmd(content, r)
    /\ UNCHANGED <<call, project, env>>

\* applyGdalCalcAB is called directly, or by applyMinGdal and applyMaxGdal
\* with their expression.
LegacyHelpers == {"applyGdalCalcAB", "applyMinGdal", "applyMaxGdal"}

LegacyExprsOf(helper) ==
    CASE helper = "applyMinGdal" -> {min_expr}
      [] helper = "applyMaxGdal" -> {max_expr_gdal}
      [] OTHER -> Exprs

\* applyGdalCalcAB(in_path1,in_path2,out_path,expr,load_flag): the call, up
\* to the first dispatch.
CallGdalCalcAB ==
    /\ pc = "ready"
    /\ \E helper \in LegacyHelpers, load_flag \in BOOLEAN :
       \E expr \in LegacyExprsOf(helper) :
          call' = [op |-> "applyGdalCalcAB", helper |-> helper,
                   input_a |-> InA, input_b |-> InB,
                   output |-> OutPath, expr |-> expr, load_flag |-> load_flag,
                   nonull_p1 |-> mkTmpPath(InA, "_nonull"),
                   nonull_p2 |-> mkTmpPath(InB, "_nonull"),
                   nonull_out |-> mkTmpPath(OutPath, "_nonull"),
                   nonull_out_tmp |-> mkTmpPath(mkTmpPath(OutPath, "_nonull"), "_tmp")]
    /\ IF isfile(content, OutPath)
       THEN LET rm == removeRaster(content, project, OutPath)
            IN  /\ trace' = rm.trace
                /\ content' = rm.files
                /\ ret' = IF rm.ret.kind = "raise" THEN rm.ret ELSE ret
                /\ pc' = IF rm.ret.kind = "raise" THEN "done" ELSE "legacy_rnull_1"
       ELSE /\ pc' = "legacy_rnull_1"
            /\ UNCHANGED <<trace, ret, content>>
    /\ UNCHANGED <<project, env>>

\* applyRNull(in_path1,tmp_no_data_val,nonull_p1)
StepLegacyRNull1 ==
    /\ pc = "legacy_rnull_1"
    /\ \E outcome \in GrassOutcomes(call.nonull_p1) :
          Advance(applyRNull(call.input_a, tmp_no_data_val_legacy, call.nonull_p1,
                             None, None, env.grass, outcome),
                  "legacy_rnull_2", ret)

\* applyRNull(in_path2,tmp_no_data_val,nonull_p2)
StepLegacyRNull2 ==
    /\ pc = "legacy_rnull_2"
    /\ \E outcome \in GrassOutcomes(call.nonull_p2) :
          Advance(applyRNull(call.input_b, tmp_no_data_val_legacy, call.nonull_p2,
                             None, None, env.grass, outcome),
                  "legacy_calc", ret)

\* utils.executeCmd(cmd_args) on A = nonull_p1, B = nonull_p2
StepLegacyCalc ==
    /\ pc = "legacy_calc"
    /\ \E outcome \in GdalOutcomes(call.nonull_out) :
          AdvanceCmd(executeCmd(gdalCalcAB_cmd(env.gdal_calc_cmd, call.nonull_p1,
                                               call.nonull_p2, call.nonull_out,
                                               call.expr),
                                outcome),
                     "legacy_reset")

\* applyGdalCalc(nonull_out,nonull_out_tmp,reset_nodata_expr)
StepLegacyReset ==
    /\ pc = "legacy_reset"
    /\ \E outcome \in GdalOutcomes(call.nonull_out_tmp) :
          AdvanceCmd(executeCmd(gdalCalc_cmd(env.gdal_calc_cmd, call.nonull_out,
                                             call.nonull_out_tmp,
                                             [kind |-> "reset_nodata_expr",
                                              tmp |-> tmp_no_data_val_legacy,
                                              nodata |-> nodata_val]),
                                outcome),
                     "legacy_setnull")

\* applyRSetNull(nonull_out_tmp,nodata_val,out_path), then the removal of
\* the temporary rasters unless utils.debug_flag, then the loading of the
\* output when load_flag.
StepLegacySetNull ==
    /\ pc = "legacy_setnull"
    /\ \E outcome \in GrassOutcomes(call.output) :
          LET r == applyRSetNull(call.nonull_out_tmp, nodata_val, call.output,
                                 None, None, env.grass, outcome)
              written == filesAfter(content, r)
              rm1 == removeRaster(written, project, call.nonull_p1)
              rm2 == removeRaster(rm1.files, project, call.nonull_p2)
              rm3 == removeRaster(rm2.files, project, call.nonull_out)
              rm4 == removeRaster(rm3.files, project, call.nonull_out_tmp)
          IN  /\ trace' = trace \o r.trace
              /\ pc' = "done"
              /\ IF r.ret.kind = "raise"
                 THEN /\ ret' = r.ret
                      /\ UNCHANGED <<content, project>>
                 ELSE /\ ret' = Return(None)
                      /\ content' = IF ~env.debug_flag THEN rm4.files ELSE written
                      /\ project' = IF call.load_flag
                                    THEN loadRaster(project, call.output)
                                    ELSE project
    /\ UNCHANGED <<call, env>>

NextCalc ==
    \/ CallRasterCalc \/ StepRNullA \/ StepRNullB \/ StepCalcAB \/ StepReset
    \/ CallGdalCalcAB \/ StepLegacyRNull1 \/ StepLegacyRNull2 \/ StepLegacyCalc
    \/ StepLegacyReset \/ StepLegacySetNull

SpecCalc == InitCalc /\ [][NextCalc]_vars

----------------------------------------------------------------------------
(* Claims on the binary raster combinations *)

ABNullOps == {"applyRasterCalcAB_ABNull", "applyRasterCalcMin", "applyRasterCalcMax"}

\* The operation returned normally.
Completed == pc = "done" /\ ret.kind = "return"

\* The pixel of the two inputs and of the final output.
PixelA == content[InA]
PixelB == content[InB]
PixelOut == content[OutPath]

\* A pixel the combination cannot tell from no-data: no-data itself, or a
\* value equal to the internal sentinel.
Missing(v) == IsNoData(v) \/ v = tmp_no_data_val

\* C3 (as stated): the output of applyRasterCalcAB_ABNull is nodata_val
\* wherever A or B is no-data and E(A,B) wherever both are valid.
C3_NoDataWhereEitherIsNoData ==
    (Completed /\ call.op = "applyRasterCalcAB_ABNull") =>
        IF IsNoData(PixelA) \/ IsNoData(PixelB)
        THEN PixelOut = call.nodata_val
        ELSE PixelOut = evalExpr(call.expr, PixelA, PixelB)

\* C3 (amended): a pixel counting as missing when it is no-data or holds
\* -998, the output is nodata_val where both A and B are missing, the value
\* of the other input where exactly one is missing, and E(A,B) where none
\* is, E(A,B) = -998 being written as nodata_val.
C3_NoDataWhereBothAreNoData ==
    (Completed /\ call.op = "applyRasterCalcAB_ABNull") =>
        PixelOut =
            IF Missing(PixelA) /\ Missing(PixelB) THEN call.nodata_val
            ELSE IF Missing(PixelA) THEN PixelB
            ELSE IF Missing(PixelB) THEN PixelA
            ELSE IF evalExpr(call.expr, PixelA, PixelB) = tmp_no_data_val
                 THEN call.nodata_val
                 ELSE evalExpr(call.expr, PixelA, PixelB)

\* A is no-data, B is valid, and the output holds B's value, not nodata_val.
C3_Witness ==
    /\ Completed
    /\ call.op = "applyRasterCalcAB_ABNull"
    /\ IsNoData(PixelA)
    /\ ~Missing(PixelB)
    /\ PixelOut = PixelB
    /\ PixelOut # call.nodata_val

combined(expr, nodata, A, B) ==
    reset_nodata_expr(tmp_no_data_val, nodata,
                      expr_wrap(tmp_no_data_val, expr,
                                rNull(A, tmp_no_data_val), rNull(B, tmp_no_data_val)))

\* C5: applyRasterCalcMin and applyRasterCalcMax produce an output, and the
\* output for (A,B) is the output for (B,A).  (A call in which GRASS is
\* missing, an external algorithm raises or the output is loaded in the
\* project is not concerned.)
C5_MinMaxCommutative ==
    (/\ pc = "done"
     /\ call.op \in {"applyRasterCalcMin", "applyRasterCalcMax"}
     /\ env.grass = "installed"
     /\ Raiseds = {}
     /\ project = {}) =>
        /\ ret.kind = "return"
        /\ PixelOut = combined(call.expr, call.nodata_val, PixelB, PixelA)

\* C6: after a binary combination completed with the debug flag off, none
\* of its temporary rasters exists.
TemporaryRasters ==
    {nonull_a, nonull_b, nonull_ab, nonull_reset,
     mkTmpPath(InA, "_nonull"), mkTmpPath(InB, "_nonull"),
     mkTmpPath(OutPath, "_nonull"),
     mkTmpPath(mkTmpPath(OutPath, "_nonull"), "_tmp")}

C6_TemporariesRemoved ==
    (Completed /\ call.op \in ABNullOps \cup {"applyGdalCalcAB"} /\ ~env.debug_flag) =>
        \A t \in TemporaryRasters : ~isfile(content, t)

----------------------------------------------------------------------------
(* qgsTreatments.clipRasterFromVector *)

Num(n) == [t |-> "num", v |-> n]

\* Python's truth value of an optional number: None and 0 are false.
Truthy(x) == IF x.t = "None" THEN FALSE ELSE x.v # 0

\* The resolutions a caller passes.
Resolutions == {None, Num(0), Num(10), Num(25)}

ResolutionKeys == {"SET_RESOLUTION", "X_RESOLUTION", "Y_RESOLUTION"}

\* parameters[...] = ... for the three resolution keys.
setResolution(parameters, x, y) ==
    ("SET_RESOLUTION" :> TRUE) @@ ("X_RESOLUTION" :> x) @@ ("Y_RESOLUTION" :> y)
    @@ parameters

\* A variant that applies the shared resolution after the per-axis values.
clipResolution_sharedLast(parameters, resolution, x_res, y_res) ==
    LET p1 == IF Truthy(x_res) /\ Truthy(y_res)
              THEN setResolution(parameters, x_res, y_res) ELSE parameters
    IN  IF Truthy(resolution) THEN setResolution(p1, resolution, resolution) ELSE p1

\* if resolution: ...   if x_res and y_res: ...
clipResolution(parameters, resolution, x_res, y_res) ==
    LET p1 == IF Truthy(resolution)
              THEN setResolution(parameters, resolution, resolution) ELSE parameters
    IN  IF Truthy(x_res) /\ Truthy(y_res) THEN setResolution(p1, x_res, y_res) ELSE p1

\* clipRasterFromVector(raster_path,vector_path,out_path,resolution,x_res,
\* y_res,crop_cutline,nodata,data_type,context,feedback)
clipRasterFromVector(raster_path, vector_path, out_path, resolution, x_res, y_res, crop_cutline, nodata, data_type, context, feedback, outcome) ==
    LET parameters == [ALPHA_BAND |-> FALSE, CROP_TO_CUTLINE |-> crop_cutline,
                       DATA_TYPE |-> data_type, INPUT |-> raster_path,
                       KEEP_RESOLUTION |-> FALSE, MASK |-> vector_path,
                       NODATA |-> nodata, OUTPUT |-> out_path]
        r == applyProcessingAlg("gdal", Str("cliprasterbymasklayer"),
                                Dict(clipResolution(parameters, resolution, x_res, y_res)),
                                context, feedback, TRUE, outcome)
    IN  [trace |-> <<Ev("progressFeedback", "setSubText", <<"Clip raster">>)>> \o r.trace,
         ret |-> r.ret]

MaskPath == <<"mask.shp">>

\* Before a clip: the raster is on disk.
InitClip ==
    /\ pc = "ready"
    /\ call = [op |-> "none"]
    /\ trace = <<>>
    /\ ret = Pending
    /\ content = (InA :> 0)
    /\ project = {}
    /\ env \in Envs

\* A call of clipRasterFromVector.
CallClipRasterFromVector ==
    /\ pc = "ready"
    /\ \E resolution \in Resolutions, x_res \in Resolutions, y_res \in Resolutions,
          crop_cutline \in BOOLEAN, context \in Contexts, feedback \in Feedbacks,
          outcome \in GdalOutcomes(OutPath) :
          LET r == clipRasterFromVector(InA, MaskPath, OutPath, resolution, x_res, y_res,
                                        crop_cutline, None, 0, context, feedback, outcome)
          IN  /\ call' = [op |-> "clipRasterFromVector", resolution |-> resolution,
                          x_res |-> x_res, y_res |-> y_res,
                          crop_cutline |-> crop_cutline,
                          context |-> context, feedback |-> feedback]
              /\ trace' = r.trace
              /\ ret' = r.ret
              /\ content' = filesAfter(content, r)
    /\ pc' = "done"
    /\ UNCHANGED <<project, env>>

NextClip == CallClipRasterFromVector

SpecClip == InitClip /\ [][NextClip]_vars

\* The parameters the clip algorithm was dispatched with.
ClipParameters == trace[CHOOSE k \in Runs : TRUE].msg.parameters.v

\* An argument is supplied when it holds a usable (non-zero) number.
Supplied(x) == Truthy(x)

\* C7: clipRasterFromVector dispatches exactly once; with the shared
\* resolution and both x_res and y_res supplied the parameters carry
\* SET_RESOLUTION true, X_RESOLUTION = x_res and Y_RESOLUTION = y_res; with
\* only the shared resolution supplied both axes carry it; with none
\* supplied no resolution key is set.
C7_ResolutionKeys ==
    (pc = "done" /\ call.op = "clipRasterFromVector") =>
        /\ Cardinality(Runs) = 1
        /\ (Supplied(call.resolution) /\ Supplied(call.x_res) /\ Supplied(call.y_res)) =>
              /\ ResolutionKeys \subseteq DOMAIN ClipParameters
              /\ ClipParameters["SET_RESOLUTION"] = TRUE
              /\ ClipParameters["X_RESOLUTION"] = call.x_res
              /\ ClipParameters["Y_RESOLUTION"] = call.y_res
        /\ (Supplied(call.resolution) /\ ~Supplied(call.x_res) /\ ~Supplied(call.y_res)) =>
              /\ ResolutionKeys \subseteq DOMAIN ClipParameters
              /\ ClipParameters["SET_RESOLUTION"] = TRUE
              /\ ClipParameters["X_RESOLUTION"] = call.resolution
              /\ ClipParameters["Y_RESOLUTION"] = call.resolution
        /\ (~Supplied(call.resolution) /\ ~Supplied(call.x_res) /\ ~Supplied(call.y_res)) =>
              ResolutionKeys \cap DOMAIN ClipParameters = {}

\* The three arguments are supplied, the per-axis values differ from the
\* shared one, and the dispatched parameters carry the per-axis values.
C7_Witness ==
    /\ pc = "done"
    /\ call.op = "clipRasterFromVector"
    /\ call.resolution = Num(25)
    /\ call.x_res = Num(10)
    /\ call.y_res = Num(10)
    /\ Runs # {}
    /\ ClipParameters["X_RESOLUTION"] = Num(10)
    /\ ClipParameters["Y_RESOLUTION"] = Num(10)

----------------------------------------------------------------------------
(* qgsUtils.checkLayersCompatible *)

LayerNames == {"roads", "parcels"}
CrsIds == {"EPSG:2154", "EPSG:4326", ""}
GeometryTypes == {"Point", "Line", "Polygon"}

\* A vector layer: its name, the authid of its CRS, its geometry type.
Layers == [name : LayerNames, crs : CrsIds, geom : GeometryTypes]

\* A variant that takes both CRS identifiers from l1.
checkLayersCompatible_crsOfFirst(l1, l2) ==
    LET crs1 == l1.crs
        crs2 == l1.crs
        reads == <<Ev("l1", "crs", crs1), Ev("l1", "crs", crs2)>>
    IN  IF crs1 # crs2
        THEN LET err == user_error(<<"Layer ", l1.name, " SRID '", crs1,
                                     "' not compatible with SRID '", crs2,
                                     "' of layer ", l2.name>>)
             IN  [trace |-> reads \o err.trace, ret |-> err.ret]
        ELSE [trace |-> reads \o <<Ev("l1", "geometryType", l1.geom),
                                   Ev("l1", "geometryType", l1.geom)>>,
              ret |-> Return(None)]

\* checkLayersCompatible(l1,l2): the CRS identifiers of l1 and l2 are
\* compared first; then geomType1 and geomType2 are both read from l1.
checkLayersCompatible(l1, l2) ==
    LET crs1 == l1.crs
        crs2 == l2.crs
        reads == <<Ev("l1", "crs", crs1), Ev("l2", "crs", crs2)>>
    IN  IF crs1 # crs2
        THEN LET err == user_error(<<"Layer ", l1.name, " SRID '", crs1,
                                     "' not compatible with SRID '", crs2,
                                     "' of layer ", l2.name>>)
             IN  [trace |-> reads \o err.trace, ret |-> err.ret]
        ELSE LET geomType1 == l1.geom
                 geomType2 == l1.geom
                 geoms == <<Ev("l1", "geometryType", geomType1),
                            Ev("l1", "geometryType", geomType2)>>
             IN  IF geomType1 # geomType2
                 THEN LET err == user_error(<<"Layer ", l1.name, " geometry '", geomType1,
                                              "' not compatible with geometry '", geomType2,
                                              "' of layer ", l2.name>>)
                      IN  [trace |-> reads \o geoms \o err.trace, ret |-> err.ret]
                 ELSE [trace |-> reads \o geoms, ret |-> Return(None)]

\* A call of checkLayersCompatible.
CallCheckLayersCompatible ==
    /\ CanCall
    /\ \E l1 \in Layers, l2 \in Layers :
          LET r == checkLayersCompatible(l1, l2)
          IN  /\ call' = [op |-> "checkLayersCompatible", l1 |-> l1, l2 |-> l2]
              /\ trace' = r.trace
              /\ ret' = r.ret
    /\ pc' = "done"
    /\ UNCHANGED <<content, project, env>>

NextCompat == CallCheckLayersCompatible

SpecCompat == Init /\ [][NextCompat]_vars

IsUserError(e) == e.ch = "utils" /\ e.ev = "user_error"
IsGeometryOp(e) == e.ev = "geometryType"

UserErrors == {i \in DOMAIN trace : IsUserError(trace[i])}
GeometryOps == {i \in DOMAIN trace : IsGeometryOp(trace[i])}

CheckedLayers == pc = "done" /\ call.op = "checkLayersCompatible"

\* C8: checkLayersCompatible raises a user error whenever the CRS
\* identifiers of the two layers differ, before any geometry operation is
\* invoked; it returns normally only if the identifiers are equal.
C8_CrsMismatchRejected ==
    CheckedLayers =>
        /\ call.l1.crs # call.l2.crs =>
              /\ ret = Raise("CustomException")
              /\ UserErrors # {}
              /\ GeometryOps = {}
        /\ ret.kind = "return" => call.l1.crs = call.l2.crs

\* Two layers of the same geometry type and of different CRS were rejected
\* before any geometry operation.
C8_Witness ==
    /\ CheckedLayers
    /\ call.l1.crs = "EPSG:2154"
    /\ call.l2.crs = "EPSG:4326"
    /\ call.l1.geom = call.l2.geom
    /\ ret = Raise("CustomException")
    /\ GeometryOps = {}

\* C9: checkLayersCompatible raises a user error whenever the two layers
\* have the same CRS and different geometry types.
C9_GeometryMismatchRejected ==
    (CheckedLayers /\ call.l1.crs = call.l2.crs /\ call.l1.geom # call.l2.geom) =>
        ret = Raise("CustomException")

----------------------------------------------------------------------------
(* qgsTreatments.selectGeomByExpression and classifByExpr *)

\* What the filter expression evaluates to on a feature: true, false, or
\* NULL (an expression over a NULL attribute).  NOT(NULL) is NULL.
ExprValues == {"true", "false", "null"}

not_expr(val) ==
    CASE val = "true" -> "false"
      [] val = "false" -> "true"
      [] val = "null" -> "null"

\* The source layers: features 1..n, each with the value the caller's
\* expression takes on it.
InLayers ==
    {[name |-> "zones", feats |-> f] :
        f \in UNION {[1 .. n -> ExprValues] : n \in 0 .. MaxFeatures}}

\* The expr argument: empty, or a filter expression.
ExprArgs == {"", "\"area\" > 5"}

OutVector == <<"out.gpkg">>

\* in_layer.getFeatures(QgsFeatureRequest().setFilterExpression(...)): the
\* ids of the features on which the expression is true, in id order.
\* negated: the request is for NOT(expr).
RECURSIVE getFeatures(_, _, _)
getFeatures(feats, negated, from) ==
    IF from > Len(feats) THEN <<>>
    ELSE LET val == IF negated THEN not_expr(feats[from]) ELSE feats[from]
         IN  (IF val = "true" THEN <<from>> ELSE <<>>)
             \o getFeatures(feats, negated, from + 1)

\* in_layer.getFeatures(QgsFeatureRequest()): every feature.
allFeatures(feats) == [i \in 1 .. Len(feats) |-> i]

\* A variant that removes the file without asking whether it is loaded.
removeVectorLayer_unchecked(files, layers, path) ==
    [files |-> removeFile(files, path), trace |-> <<>>, ret |-> Return(None)]

\* qgsUtils.removeVectorLayer(path)
removeVectorLayer(files, layers, path) ==
    IF isLayerLoaded(layers, path)
    THEN LET err == user_error(<<"Layer ", path, " is already loaded in QGIS, please remove it">>)
         IN  [files |-> files, trace |-> err.trace, ret |-> err.ret]
    ELSE [files |-> removeFile(files, path), trace |-> <<>>, ret |-> Return(None)]

\* A variant that goes on with the next feature when addFeature fails.
afterAddFeature_ignored(res) == [kind |-> "continue"]

\* res = out_provider.addFeature(new_f); if not res: internal_error(...).
\* The module binds no name internal_error (only utils.internal_error
\* exists), so the call itself raises NameError.
afterAddFeature(res) == IF res THEN [kind |-> "continue"] ELSE Raise("NameError")

\* new_f of the current pass for the source feature id.
newFeature(op, pass, in_name, id) ==
    IF op = "classifByExpr"
    THEN [src |-> id, Value |-> IF pass = 1 THEN 1 ELSE 0, Origin |-> in_name]
    ELSE [src |-> id, Origin |-> in_name]

\* Before the operation: the output file may exist and may be loaded.
InitVector ==
    /\ pc = "ready"
    /\ call = [op |-> "none"]
    /\ trace = <<>>
    /\ ret = Pending
    /\ \E out \in {"absent", "file", "loaded"} :
          /\ content = IF out = "absent" THEN <<>> ELSE (OutVector :> <<>>)
          /\ project = IF out = "loaded" THEN {OutVector} ELSE {}
    /\ env \in Envs

\* selectGeomByExpression / classifByExpr(in_layer,expr,out_path,out_name),
\* up to the first loop.
CallVectorByExpr ==
    /\ pc = "ready"
    /\ \E op \in {"selectGeomByExpression", "classifByExpr"},
          in_layer \in InLayers, expr \in ExprArgs :
          LET rm == removeVectorLayer(content, project, OutVector)
          IN  /\ call' = [op |-> op, in_layer |-> in_layer, expr |-> expr,
                          out_path |-> OutVector, out_layer |-> <<>>, pass |-> 1,
                          feats |-> IF expr # ""
                                    THEN getFeatures(in_layer.feats, FALSE, 1)
                                    ELSE allFeatures(in_layer.feats)]
              /\ trace' = rm.trace
              /\ content' = rm.files
              /\ ret' = IF rm.ret.kind = "raise" THEN rm.ret ELSE ret
              /\ pc' = IF rm.ret.kind = "raise" THEN "done" ELSE "add_feature"
    /\ UNCHANGED <<project, env>>

\* One iteration of `for f in feats`.
StepAddFeature ==
    /\ pc = "add_feature"
    /\ call.feats # <<>>
    /\ \E res \in BOOLEAN :
          LET new_f == newFeature(call.op, call.pass, call.in_layer.name, Head(call.feats))
              after == afterAddFeature(res)
          IN  /\ trace' = trace \o <<Ev("out_provider", "addFeature",
                                        [new_f |-> new_f, res |-> res])>>
              /\ call' = [call EXCEPT !.feats = Tail(@),
                                      !.out_layer = IF res THEN Append(@, new_f) ELSE @]
              /\ IF after.kind = "raise"
                 THEN ret' = after /\ pc' = "done"
                 ELSE ret' = ret /\ pc' = pc
    /\ UNCHANGED <<content, project, env>>

\* The end of a loop: classifByExpr with a non-empty expr goes on with the
\* features of NOT(expr); otherwise the layer is ready to be written.
StepEndOfLoop ==
    /\ pc = "add_feature"
    /\ call.feats = <<>>
    /\ IF call.op = "classifByExpr" /\ call.expr # "" /\ call.pass = 1
       THEN /\ call' = [call EXCEPT !.pass = 2,
                                    !.feats = getFeatures(call.in_layer.feats, TRUE, 1)]
            /\ pc' = pc
       ELSE /\ call' = call
            /\ pc' = "write"
    /\ UNCHANGED <<trace, ret, content, project, env>>

\* qgsUtils.writeVectorLayer(out_layer,out_path): the writer reports NoError
\* or an error, which is a user error.
StepWriteVectorLayer ==
    /\ pc = "write"
    /\ \E error \in {"NoError", "ErrCreateDataSource"} :
          IF error = "NoError"
          THEN /\ content' = (call.out_path :> call.out_layer) @@ content
               /\ trace' = trace \o <<Ev("writer", "writeAsVectorFormat", call.out_path),
                                      Ev("utils", "info", <<"File '", call.out_path,
                                                           "' succesfully created">>)>>
               /\ ret' = Return(None)
          ELSE LET err == user_error(<<"Unable to create file '", call.out_path, "' : ", error>>)
               IN  /\ content' = removeFile(content, call.out_path)
                   /\ trace' = trace \o <<Ev("writer", "writeAsVectorFormat", call.out_path)>>
                                     \o err.trace
                   /\ ret' = err.ret
    /\ pc' = "done"
    /\ UNCHANGED <<call, project, env>>

NextVector ==
    \/ CallVectorByExpr \/ StepAddFeature \/ StepEndOfLoop \/ StepWriteVectorLayer

SpecVector == InitVector /\ [][NextVector]_vars

IsAddFeature(e) == e.ch = "out_provider" /\ e.ev = "addFeature"

\* The insertions that reported failure.
AddFailures == {i \in DOMAIN trace : IsAddFeature(trace[i]) /\ ~trace[i].msg.res}

VectorOps == {"selectGeomByExpression", "classifByExpr"}

\* The records written to out_path for the source feature id.
WrittenFor(id) == {k \in DOMAIN content[OutVector] : content[OutVector][k].src = id}

\* C11: classifByExpr writes every feature of the source layer exactly
\* once, with Origin the name of the source layer and, for a non-empty
\* expression, Value = 1 if the feature matches and 0 if it does not; with
\* an empty expression every feature is written once with Value = 1.
C11_EveryFeatureClassified ==
    (pc = "done" /\ ret.kind = "return" /\ call.op = "classifByExpr") =>
        /\ Len(content[OutVector]) = Len(call.in_layer.feats)
        /\ \A id \in DOMAIN call.in_layer.feats :
              /\ Cardinality(WrittenFor(id)) = 1
              /\ \A k \in WrittenFor(id) :
                    /\ content[OutVector][k].Origin = call.in_layer.name
                    /\ content[OutVector][k].Value =
                          IF call.expr = "" \/ call.in_layer.feats[id] = "true"
                          THEN 1 ELSE 0

\* C12: when an insertion into the output layer reports failure, the
\* operation raises at once: the failed insertion is the last thing the
\* operation did (no retry, no further insertion, no write) and out_path
\* holds no file.
C12_AddFeatureFailureAborts ==
    (call.op \in VectorOps /\ AddFailures # {}) =>
        /\ pc = "done"
        /\ ret.kind = "raise"
        /\ AddFailures = {Len(trace)}
        /\ ~isfile(content, call.out_path)

\* An insertion failed while a feature was still to be inserted.
C12_Witness ==
    /\ call.op \in VectorOps
    /\ AddFailures # {}
    /\ call.feats # <<>>
    /\ pc = "done"
    /\ ret.kind = "raise"

----------------------------------------------------------------------------
(* qgsUtils.removeRaster on its own *)

RasterPaths == {InA, InB}

\* The files that may be on disk: the rasters and their sidecars.
DiskPaths == RasterPaths \cup {aux_name(path) : path \in RasterPaths}

\* Any of the files may exist, any of the rasters may be loaded.
InitFiles ==
    /\ pc = "ready"
    /\ call = [op |-> "none"]
    /\ trace = <<>>
    /\ ret = Pending
    /\ \E present \in SUBSET DiskPaths : content = [f \in present |-> 0]
    /\ project \in SUBSET RasterPaths
    /\ env \in Envs

\* A call of removeRaster(path); the files before the call are kept for
\* comparison.
CallRemoveRaster ==
    /\ pc = "ready"
    /\ \E path \in RasterPaths :
          LET rm == removeRaster(content, project, path)
          IN  /\ call' = [op |-> "removeRaster", path |-> path, before |-> content]
              /\ trace' = rm.trace
              /\ content' = rm.files
              /\ ret' = rm.ret
    /\ pc' = "done"
    /\ UNCHANGED <<project, env>>

NextFiles == CallRemoveRaster

SpecFiles == InitFiles /\ [][NextFiles]_vars

\* C13: removeRaster(path) on a raster that is not loaded returns, and
\* afterwards neither path nor path + '.aux.xml' exists, while every other
\* file is as before.
C13_SidecarRemovedWithRaster ==
    (pc = "done" /\ call.op = "removeRaster" /\ ~isLayerLoaded(project, call.path)) =>
        /\ ret = Return(None)
        /\ ~isfile(content, call.path)
        /\ ~isfile(content, aux_name(call.path))
        /\ DOMAIN content = DOMAIN call.before \ {call.path, aux_name(call.path)}
        /\ \A f \in DOMAIN content : content[f] = call.before[f]

\* The raster, its sidecar and another raster existed; the two first are
\* gone and the other raster remains.
C13_Witness ==
    /\ pc = "done"
    /\ call.op = "removeRaster"
    /\ call.path = InA
    /\ {InA, aux_name(InA), InB} \subseteq DOMAIN call.before
    /\ ret = Return(None)
    /\ ~isfile(content, InA)
    /\ ~isfile(content, aux_name(InA))
    /\ isfile(content, InB)

----------------------------------------------------------------------------
(* qgsTreatments.applyWarpReproject *)

modes == <<"near", "bilinear", "cubic", "cubicspline", "lanczos",
           "average", "mode", "max", "min", "med", "q1", "q3">>

\* The modes a caller passes: the listed ones and some others.
ResamplingModes == {modes[i] : i \in DOMAIN modes} \cup {"nearest", "NEAR", ""}

\* `resampling_mode in modes`
inModes(resampling_mode) == \E i \in DOMAIN modes : modes[i] = resampling_mode

\* A variant that counts positions from one.
modes_index_oneBased(resampling_mode) ==
    CHOOSE i \in DOMAIN modes : modes[i] = resampling_mode

\* modes.index(resampling_mode), for a listed mode: positions count from 0.
modes_index(resampling_mode) ==
    (CHOOSE i \in DOMAIN modes : modes[i] = resampling_mode) - 1

\* The call utils.internal_error(msg) as seen from the caller: the error is
\* reported, and the call either raises or returns.
internal_error(msg, raises) ==
    [trace |-> <<Ev("utils", "internal_error", msg)>>,
     ret |-> IF raises THEN Raise("CustomException") ELSE Return(None)]

\* applyWarpReproject(in_path,out_path,resampling_mode,...,overwrite,
\* context,feedback).  With an unlisted mode, should utils.internal_error
\* return, modes.index raises ValueError.
applyWarpReproject(files, layers, in_path, out_path, resampling_mode, overwrite, context, feedback, error_raises, outcome) ==
    LET head == <<Ev("progressFeedback", "setSubText", <<"Warp">>)>>
    IN  IF ~inModes(resampling_mode)
        THEN LET err == internal_error(<<"Unexpected resampling mode : ", resampling_mode>>,
                                       error_raises)
             IN  [files |-> files, trace |-> head \o err.trace,
                  ret |-> IF err.ret.kind = "raise" THEN err.ret ELSE Raise("ValueError")]
        ELSE LET mode_val == modes_index(resampling_mode)
                 rm == IF overwrite THEN removeRaster(files, layers, out_path)
                       ELSE [files |-> files, trace |-> <<>>, ret |-> Return(None)]
                 parameters == [DATA_TYPE |-> 0, INPUT |-> in_path, NODATA |-> nodata_val,
                                OUTPUT |-> out_path, RESAMPLING |-> mode_val,
                                SOURCE_CRS |-> None, TARGET_CRS |-> None,
                                TARGET_EXTENT |-> None, TARGET_EXTENT_CRS |-> None,
                                TARGET_RESOLUTION |-> None]
                 r == applyProcessingAlg("gdal", Str("warpreproject"), Dict(parameters),
                                         context, feedback, TRUE, outcome)
             IN  IF rm.ret.kind = "raise"
                 THEN [files |-> files, trace |-> head \o rm.trace, ret |-> rm.ret]
                 ELSE [files |-> filesAfter(rm.files, r),
                       trace |-> head \o rm.trace \o r.trace, ret |-> r.ret]

\* Before a raster operation on one input: the input is on disk; the
\* output may exist already and may be loaded in the project.
InitRaster ==
    /\ pc = "ready"
    /\ call = [op |-> "none"]
    /\ trace = <<>>
    /\ ret = Pending
    /\ \E out \in {"absent", "file", "loaded"} :
          /\ content = IF out = "absent"
                       THEN (InA :> 0)
                       ELSE (InA :> 0) @@ (OutPath :> 0) @@ (aux_name(OutPath) :> 0)
          /\ project = IF out = "loaded" THEN {OutPath} ELSE {}
    /\ env \in Envs

\* A call of applyWarpReproject.
CallWarpReproject ==
    /\ pc = "ready"
    /\ \E resampling_mode \in ResamplingModes, overwrite \in BOOLEAN,
          context \in Contexts, feedback \in Feedbacks, error_raises \in BOOLEAN,
          outcome \in GdalOutcomes(OutPath) :
          LET r == applyWarpReproject(content, project, InA, OutPath, resampling_mode,
                                      overwrite, context, feedback, error_raises, outcome)
          IN  /\ call' = [op |-> "applyWarpReproject", resampling_mode |-> resampling_mode,
                          overwrite |-> overwrite, context |-> context,
                          feedback |-> feedback, before |-> content]
              /\ trace' = r.trace
              /\ content' = r.files
              /\ ret' = r.ret
    /\ pc' = "done"
    /\ UNCHANGED <<project, env>>

NextWarp == CallWarpReproject

SpecWarp == InitRaster /\ [][NextWarp]_vars

IsInternalError(e) == e.ch = "utils" /\ e.ev = "internal_error"
InternalErrors == {i \in DOMAIN trace : IsInternalError(trace[i])}

\* The zero-based positions of the claim: 'near' = 0 ... 'q3' = 11.
ModePosition ==
    [near |-> 0, bilinear |-> 1, cubic |-> 2, cubicspline |-> 3, lanczos |-> 4,
     average |-> 5, mode |-> 6, max |-> 7, min |-> 8, med |-> 9, q1 |-> 10, q3 |-> 11]

\* C14: applyWarpReproject with an unlisted resampling mode reports an
\* error, raises and never dispatches the warp algorithm; with a listed
\* mode it dispatches once (unless the overwritten output is loaded) with
\* RESAMPLING the zero-based position of the mode.
C14_ResamplingMode ==
    (pc = "done" /\ call.op = "applyWarpReproject") =>
        IF call.resampling_mode \in DOMAIN ModePosition
        THEN /\ InternalErrors = {}
             /\ (~call.overwrite \/ UserErrors = {}) => Cardinality(Runs) = 1
             /\ \A k \in Runs :
                   /\ trace[k].msg.name = <<"gdal", ":", "warpreproject">>
                   /\ trace[k].msg.parameters.v.RESAMPLING
                         = ModePosition[call.resampling_mode]
        ELSE /\ Cardinality(InternalErrors) = 1
             /\ \A i \in InternalErrors : trace[i].msg[2] = call.resampling_mode
             /\ ret.kind = "raise"
             /\ Runs = {}

\* The mode 'q3' was dispatched as 11.
C14_Witness ==
    /\ pc = "done"
    /\ call.op = "applyWarpReproject"
    /\ call.resampling_mode = "q3"
    /\ \E k \in Runs : trace[k].msg.parameters.v.RESAMPLING = 11

----------------------------------------------------------------------------
(* qgsTreatments.applyRasterizationCmd (legacy command path) *)

\* str(resolution)
str(x) ==
    CASE x.t = "None" -> "None"
      [] x.t = "num" /\ x.v = 0 -> "0"
      [] x.t = "num" /\ x.v = 10 -> "10"
      [] x.t = "num" /\ x.v = 25 -> "25"

\* The host with the module global gdal_rasterize_cmd, None until the host
\* sets it.
RasterizeEnvs ==
    {[grass |-> e.grass, debug_flag |-> e.debug_flag, gdal_calc_cmd |-> e.gdal_calc_cmd,
      gdal_rasterize_cmd |-> c] : e \in Envs, c \in {None, Str("gdal_rasterize")}}

\* What the rasterize command does: what it writes on standard error, its
\* exit code, and whether it wrote the output raster (it did if it exited
\* with 0).
CmdOutcomes ==
    {o \in [err : {"", "ERROR 1: cannot rasterize"}, exit_code : {0, 1}, wrote : BOOLEAN] :
        o.exit_code = 0 => o.wrote}

\* A variant that detects the failure by the exit code.
commandFailed_byExitCode(outcome) == outcome.exit_code # 0

\* out,err = p.communicate(); if err: ...
commandFailed(outcome) == outcome.err # ""

\* A variant that never finds the resolution empty.
emptyResolution_never(resolution) == FALSE

\* resolution == 0.0
emptyResolution(resolution) == resolution.t = "num" /\ resolution.v = 0

\* The argument list of the rasterize command.
rasterizeParameters(cmd, in_path, field, out_path, resolution, to_byte) ==
    <<cmd, "-at", "-te", "x_min", "y_min", "x_max", "y_max",
      "-tr", str(resolution), str(resolution), "-of", "GTiff">>
    \o (IF to_byte THEN <<"-ot", "Int16", "-a_nodata", "-9999">> ELSE <<>>)
    \o (IF field = "geom" THEN <<"-burn", "1">> ELSE <<"-a", field>>)
    \o <<in_path, out_path>>

\* qgsUtils.loadRasterLayer(fname) followed by addMapLayer: a user error
\* when the file does not exist (utils.checkFileExists).
loadRasterLayer(files, layers, fname) ==
    IF ~isfile(files, fname)
    THEN LET err == user_error(<<"File ", fname, " does not exist">>)
         IN  [layers |-> layers, trace |-> err.trace, ret |-> err.ret]
    ELSE [layers |-> loadRaster(layers, fname), trace |-> <<>>, ret |-> Return(None)]

\* applyRasterizationCmd(in_path,field,out_path,extent_path,resolution,
\* load_flag,to_byte) with the command behaving as `outcome`.  With
\* gdal_rasterize_cmd None, subprocess.Popen raises TypeError.
applyRasterizationCmd(files, layers, cmd, in_path, field, out_path, resolution, load_flag, to_byte, outcome) ==
    IF emptyResolution(resolution)
    THEN LET err == user_error(<<"Empty resolution">>)
         IN  [files |-> files, layers |-> layers, trace |-> err.trace, ret |-> err.ret]
    ELSE IF cmd.t = "None"
    THEN [files |-> files, layers |-> layers, trace |-> <<>>, ret |-> Raise("TypeError")]
    ELSE LET parameters == rasterizeParameters(cmd.v, in_path, field, out_path,
                                               resolution, to_byte)
             launched == <<Ev("subprocess", "Popen", parameters),
                           Ev("subprocess", "communicate", outcome)>>
             written == IF outcome.wrote THEN writeRaster(files, out_path, 1) ELSE files
         IN  IF commandFailed(outcome)
             THEN LET err == user_error(<<outcome.err>>)
                  IN  [files |-> written, layers |-> layers,
                       trace |-> launched \o err.trace, ret |-> err.ret]
             ELSE IF load_flag
             THEN LET ld == loadRasterLayer(written, layers, out_path)
                  IN  [files |-> written, layers |-> ld.layers,
                       trace |-> launched \o ld.trace, ret |-> ld.ret]
             ELSE [files |-> written, layers |-> layers, trace |-> launched,
                   ret |-> Return(None)]

InVector == <<"zones.shp">>

\* Before a rasterization: the vector layer is on disk; the output may
\* exist already and may be loaded in the project.
InitRasterize ==
    /\ pc = "ready"
    /\ call = [op |-> "none"]
    /\ trace = <<>>
    /\ ret = Pending
    /\ \E out \in {"absent", "file", "loaded"} :
          /\ content = IF out = "absent"
                       THEN (InVector :> <<>>)
                       ELSE (InVector :> <<>>) @@ (OutPath :> 0)
          /\ project = IF out = "loaded" THEN {OutPath} ELSE {}
    /\ env \in RasterizeEnvs

\* A call of applyRasterizationCmd.
CallRasterizationCmd ==
    /\ pc = "ready"
    /\ \E field \in {"geom", "code"}, resolution \in Resolutions, load_flag \in BOOLEAN,
          to_byte \in BOOLEAN, outcome \in CmdOutcomes :
          LET r == applyRasterizationCmd(content, project, env.gdal_rasterize_cmd, InVector,
                                         field, OutPath, resolution, load_flag, to_byte,
                                         outcome)
          IN  /\ call' = [op |-> "applyRasterizationCmd", field |-> field,
                          resolution |-> resolution, load_flag |-> load_flag,
                          to_byte |-> to_byte, loaded_before |-> project]
              /\ trace' = r.trace
              /\ content' = r.files
              /\ project' = r.layers
              /\ ret' = r.ret
    /\ pc' = "done"
    /\ UNCHANGED env

NextRasterize == CallRasterizationCmd

SpecRasterize == InitRasterize /\ [][NextRasterize]_vars

IsLaunch(e) == e.ch = "subprocess" /\ e.ev = "Popen"
Launches == {i \in DOMAIN trace : IsLaunch(trace[i])}

\* The call launched the rasterize command.
Rasterized == pc = "done" /\ call.op = "applyRasterizationCmd" /\ Launches # {}

\* What the launched command did, and the arguments after '-tr'.
CmdOutcome == trace[CHOOSE i \in DOMAIN trace : trace[i].ev = "communicate"].msg
CmdParameters == trace[CHOOSE i \in Launches : TRUE].msg
TrArguments ==
    LET i == CHOOSE i \in DOMAIN CmdParameters : CmdParameters[i] = "-tr"
    IN  <<CmdParameters[i + 1], CmdParameters[i + 2]>>

\* The user errors that carry the standard-error text of the command.
StderrReports == {i \in UserErrors : trace[i].msg = <<CmdOutcome.err>>}

C17_DefaultResolution ==
    (Rasterized /\ call.resolution = None) => TrArguments = <<"25", "25">>

----------------------------------------------------------------------------
(* Claims on the combined formula of applyRasterCalcAB_ABNull *)

\* The combined raster has been computed from the sentinel-filled inputs.
CombinedABNull ==
    /\ call.op \in ABNullOps
    /\ {nonull_a, nonull_b, nonull_ab} \subseteq DOMAIN content

\* A' and B', the pixels after sentinel substitution, and the combined pixel.
PixelA1 == content[nonull_a]
PixelB1 == content[nonull_b]
PixelAB == content[nonull_ab]

\* C18: for every pair (A',B') exactly one of the three indicator terms of
\* the combined formula is 1, and the formula evaluates to B' when A' is
\* the sentinel, to A' when A' is not the sentinel and B' is, and to
\* E(A',B') when neither is.
C18_ExactlyOneBranch ==
    CombinedABNull =>
        LET ind == indicators(tmp_no_data_val, PixelA1, PixelB1)
        IN  /\ \A i \in 1 .. 3 : ind[i] \in {0, 1}
            /\ ind[1] + ind[2] + ind[3] = 1
            /\ ind[1] = 1 <=> PixelA1 = tmp_no_data_val
            /\ ind[2] = 1 <=> (PixelA1 # tmp_no_data_val /\ PixelB1 = tmp_no_data_val)
            /\ PixelAB = IF PixelA1 = tmp_no_data_val THEN PixelB1
                         ELSE IF PixelB1 = tmp_no_data_val THEN PixelA1
                         ELSE evalExpr(call.expr, PixelA1, PixelB1)

\* A' is the sentinel, B' is not, and the combined pixel is B'.
C18_Witness ==
    /\ CombinedABNull
    /\ PixelA1 = tmp_no_data_val
    /\ PixelB1 # tmp_no_data_val
    /\ PixelAB = PixelB1
    /\ PixelAB # evalExpr(call.expr, PixelA1, PixelB1)

\* C19: where both A and B are no-data, the combination takes its first
\* branch, the combined pixel is B', the internal sentinel, and the reset
\* step writes nodata_val, whatever the expression.
C19_BothNoData ==
    (CombinedABNull /\ IsNoData(PixelA) /\ IsNoData(PixelB)) =>
        /\ PixelA1 = tmp_no_data_val
        /\ PixelB1 = tmp_no_data_val
        /\ indicators(tmp_no_data_val, PixelA1, PixelB1) = <<1, 0, 0>>
        /\ PixelAB = PixelB1
        /\ Completed => PixelOut = call.nodata_val

\* Both inputs are no-data and the output holds the caller's nodata_val,
\* here different from the module default.
C19_Witness ==
    /\ Completed
    /\ CombinedABNull
    /\ IsNoData(PixelA)
    /\ IsNoData(PixelB)
    /\ PixelAB = tmp_no_data_val
    /\ call.nodata_val = tmp_no_data_val_legacy
    /\ PixelOut = tmp_no_data_val_legacy

----------------------------------------------------------------------------
(* Claims on the min and max expressions *)

MinOf(a, b) == IF a <= b THEN a ELSE b
MaxOf(a, b) == IF a <= b THEN b ELSE a

\* The legacy combination has computed nonull_out from its two
\* sentinel-filled inputs.
CombinedLegacy ==
    /\ call.op = "applyGdalCalcAB"
    /\ {call.nonull_p1, call.nonull_p2, call.nonull_out} \subseteq DOMAIN content

\* The pairs of pixels an expression was evaluated on.
EvaluatedPairs ==
    (IF CombinedABNull THEN {<<PixelA1, PixelB1>>} ELSE {})
    \cup (IF CombinedLegacy
          THEN {<<content[call.nonull_p1], content[call.nonull_p2]>>} ELSE {})

\* C20: on every pair (a,b), a = b included, the min expression evaluates
\* to min(a,b) and the max expressions to max(a,b), exactly one of the two
\* gates being 1; the rasters computed by applyMinGdal, applyMaxGdal,
\* applyRasterCalcMax and by the combination with the min expression hold
\* that value.
C20_MinMaxExpressions ==
    /\ \A p \in EvaluatedPairs :
          /\ evalExpr(min_expr, p[1], p[2]) = MinOf(p[1], p[2])
          /\ evalExpr(max_expr, p[1], p[2]) = MaxOf(p[1], p[2])
          /\ evalExpr(max_expr_gdal, p[1], p[2]) = MaxOf(p[1], p[2])
          /\ less_equal(p[1], p[2]) + less(p[2], p[1]) = 1
    /\ (CombinedLegacy /\ call.helper = "applyMinGdal") =>
          content[call.nonull_out] = MinOf(content[call.nonull_p1], content[call.nonull_p2])
    /\ (CombinedLegacy /\ call.helper = "applyMaxGdal") =>
          content[call.nonull_out] = MaxOf(content[call.nonull_p1], content[call.nonull_p2])
    /\ (CombinedABNull /\ PixelA1 # tmp_no_data_val /\ PixelB1 # tmp_no_data_val) =>
          /\ call.op = "applyRasterCalcMax" => PixelAB = MaxOf(PixelA1, PixelB1)
          /\ call.expr = min_expr => PixelAB = MinOf(PixelA1, PixelB1)

\* applyMinGdal on two equal pixels: the result is their common value.
C20_Witness ==
    /\ CombinedLegacy
    /\ call.helper = "applyMinGdal"
    /\ content[call.nonull_p1] = content[call.nonull_p2]
    /\ content[call.nonull_out] = content[call.nonull_p1]
    /\ content[call.nonull_out] # 0

----------------------------------------------------------------------------
(* Claims on the execution context of applyProcessingAlg *)

\* C21: the context passed to the external algorithm is the caller's when
\* the caller supplied one, and a fresh context bound to the feedback
\* channel only when the caller supplied none.
C21_CallerContextPassed ==
    (pc = "done" /\ call.op = "applyProcessingAlg") =>
        \A k \in Runs :
            IF call.context.t # "None"
            THEN trace[k].msg.context.v = call.context.v
            ELSE /\ trace[k].msg.context.v = "new"
                 /\ trace[k].msg.context.feedback = feedbackChannel(call.feedback)

----------------------------------------------------------------------------
(* qgsUtils.getLoadedLayerByName *)

LayerIds == 1 .. 3

\* The names of the layers of the project, and the names asked for.
ProjectLayerNames == {"roads", "name"}

\* The projects: some of the layers are loaded, each under a name.
NamedProjects ==
    UNION {{{[id |-> i, name |-> f[i]] : i \in ids} : f \in [ids -> ProjectLayerNames]} :
              ids \in SUBSET LayerIds}

\* QgsProject.instance().mapLayersByName(n)
mapLayersByName(layers, n) == {l \in layers : l.name = n}

\* getLoadedLayerByName(name): the layers are looked up under the literal
\* 'name', whatever the argument.
getLoadedLayerByName(layers, name) ==
    LET found == mapLayersByName(layers, "name")
        nb_layers == Cardinality(found)
    IN  IF nb_layers = 0
        THEN [trace |-> <<Ev("utils", "warn", <<"No layer named '", name, "' found">>)>>,
              ret |-> Return(None)]
        ELSE IF nb_layers > 1
        THEN user_error(<<"Several layers named '", name, "' found">>)
        ELSE [trace |-> <<>>,
              ret |-> Return([t |-> "layer", v |-> CHOOSE l \in found : TRUE])]

InitByName ==
    /\ pc = "ready"
    /\ call = [op |-> "none"]
    /\ trace = <<>>
    /\ ret = Pending
    /\ content = <<>>
    /\ project \in NamedProjects
    /\ env \in Envs

\* A call of getLoadedLayerByName.
CallGetLoadedLayerByName ==
    /\ pc = "ready"
    /\ \E name \in ProjectLayerNames :
          LET r == getLoadedLayerByName(project, name)
          IN  /\ call' = [op |-> "getLoadedLayerByName", name |-> name]
              /\ trace' = r.trace
              /\ ret' = r.ret
    /\ pc' = "done"
    /\ UNCHANGED <<content, project, env>>

NextByName == CallGetLoadedLayerByName

SpecByName == InitByName /\ [][NextByName]_vars

\* The loaded layers whose name is the one asked for.
NamedAsAsked == {l \in project : l.name = call.name}

\* C22: getLoadedLayerByName(name) returns the loaded layer of that name
\* when there is exactly one, returns None with a warning when there is
\* none, and raises a user error when there are several.
C22_LayerOfThatName ==
    (pc = "done" /\ call.op = "getLoadedLayerByName") =>
        /\ Cardinality(NamedAsAsked) = 1 =>
              (ret.kind = "return" /\ ret.val.t = "layer" /\ ret.val.v \in NamedAsAsked)
        /\ Cardinality(NamedAsAsked) = 0 =>
              (ret = Return(None) /\ Warns # {})
        /\ Cardinality(NamedAsAsked) > 1 => ret = Raise("CustomException")

----------------------------------------------------------------------------
(* qgsTreatments.applyFilterGdalFromMaxVal (legacy command path) *)

\* applyGdalCalc(in_path,out_path,expr,load_flag,more_args) with the
\* command behaving as `outcome`.
applyGdalCalc(files, layers, cmd, in_path, out_path, expr, load_flag, more_args, outcome) ==
    LET rm == IF isfile(files, out_path) THEN removeRaster(files, layers, out_path)
              ELSE [files |-> files, trace |-> <<>>, ret |-> Return(None)]
        cmd_args == [more_args |-> more_args] @@ gdalCalc_cmd(cmd, in_path, out_path, expr)
        r == executeCmd(cmd_args, outcome)
        written == filesAfterCmd(rm.files, r)
    IN  IF rm.ret.kind = "raise"
        THEN [files |-> files, layers |-> layers, trace |-> rm.trace, ret |-> rm.ret]
        ELSE IF r.ret.kind = "raise"
        THEN [files |-> rm.files, layers |-> layers, trace |-> rm.trace \o r.trace,
              ret |-> r.ret]
        ELSE IF load_flag
        THEN LET ld == loadRasterLayer(written, layers, out_path)
             IN  [files |-> written, layers |-> ld.layers,
                  trace |-> rm.trace \o r.trace \o ld.trace, ret |-> ld.ret]
        ELSE [files |-> written, layers |-> layers, trace |-> rm.trace \o r.trace,
              ret |-> Return(None)]

\* applyFilterGdalFromMaxVal(in_path,out_path,max_val,load_flag)
applyFilterGdalFromMaxVal(files, layers, cmd, in_path, out_path, max_val, load_flag, outcome) ==
    applyGdalCalc(files, layers, cmd, in_path, out_path,
                  [kind |-> "filter_max_val", max_val |-> max_val],
                  load_flag, <<"--type=Float32">>, outcome)

\* The thresholds a caller passes.
MaxVals == {-2, 0, 1}

\* Before a filter: the input raster is on disk with any pixel value; the
\* output may exist already and may be loaded in the project.
InitFilter ==
    /\ pc = "ready"
    /\ call = [op |-> "none"]
    /\ trace = <<>>
    /\ ret = Pending
    /\ \E a \in PixelValues, out \in {"absent", "file", "loaded"} :
          /\ content = IF out = "absent"
                       THEN (InA :> a)
                       ELSE (InA :> a) @@ (OutPath :> 0) @@ (aux_name(OutPath) :> 0)
          /\ project = IF out = "loaded" THEN {OutPath} ELSE {}
    /\ env \in Envs

\* A call of applyFilterGdalFromMaxVal.
CallFilterGdalFromMaxVal ==
    /\ pc = "ready"
    /\ \E max_val \in MaxVals, load_flag \in BOOLEAN, outcome \in GdalOutcomes(OutPath) :
          LET r == applyFilterGdalFromMaxVal(content, project, env.gdal_calc_cmd, InA,
                                             OutPath, max_val, load_flag, outcome)
          IN  /\ call' = [op |-> "applyFilterGdalFromMaxVal", max_val |-> max_val,
                          load_flag |-> load_flag]
              /\ trace' = r.trace
              /\ content' = r.files
              /\ project' = r.layers
              /\ ret' = r.ret
    /\ pc' = "done"
    /\ UNCHANGED env

NextFilter == CallFilterGdalFromMaxVal

SpecFilter == InitFilter /\ [][NextFilter]_vars

\* The filter wrote its output.
Filtered == pc = "done" /\ call.op = "applyFilterGdalFromMaxVal" /\ ret.kind = "return"

----------------------------------------------------------------------------
(* The order of the delegates of applyRasterCalcAB_ABNull *)

\* The dispatches of the operation so far, in the order they were made.
Dispatches == SelectSeq(trace, IsRun)

\* What the k-th dispatch of applyRasterCalcAB_ABNull is: r.null on input_a,
\* r.null on input_b, the combined formula, the reset into the output.
IsDelegate(k, e) ==
    LET p == e.msg.parameters.v
    IN  CASE k = 1 -> e.msg.name = <<"grass7", ":", "r.null">> /\ p.map = call.input_a
                      /\ p.output = nonull_a
          [] k = 2 -> e.msg.name = <<"grass7", ":", "r.null">> /\ p.map = call.input_b
                      /\ p.output = nonull_b
          [] k = 3 -> e.msg.name = <<"gdal", ":", "rastercalculator">>
                      /\ p.FORMULA.kind = "expr_wrap" /\ p.OUTPUT = nonull_ab
          [] k = 4 -> e.msg.name = <<"gdal", ":", "rastercalculator">>
                      /\ p.FORMULA.kind = "reset_nodata_expr" /\ p.INPUT_A = nonull_ab
                      /\ p.OUTPUT = call.output
          [] OTHER -> FALSE

\* C24: applyRasterCalcAB_ABNull dispatches r.null on A, r.null on B, the
\* combined formula and the reset into the output, in that order; a step
\* starts only after the previous one returned; once a step raised no later
\* step is dispatched and the exception reaches the caller.
C24_DelegatesInOrder ==
    call.op = "applyRasterCalcAB_ABNull" =>
        /\ \A k \in 1 .. Len(Dispatches) : IsDelegate(k, Dispatches[k])
        /\ \A i \in Runs : \A j \in Runs : i < j => \E m \in Returneds : i < m /\ m < j
        /\ \A i \in Raiseds : /\ \A j \in Runs : j < i
                               /\ pc = "done"
                               /\ ret = Raise(trace[i].msg)
        /\ (pc = "done" /\ ret.kind = "return") =>
               Len(Dispatches) = 4 /\ Cardinality(Returneds) = 4

\* The combined formula raised after the two r.null steps returned: three
\* dispatches, no reset, and the exception at the caller.
C24_Witness ==
    /\ call.op = "applyRasterCalcAB_ABNull"
    /\ pc = "done"
    /\ Len(Dispatches) = 3
    /\ Cardinality(Returneds) = 2
    /\ Raiseds # {}
    /\ ret = Raise("QgsProcessingException")

\* C25: the reset step of applyRasterCalcAB_ABNull is dispatched with the
\* caller's nodata_val as NO_DATA, the caller's out_type as RTYPE, and the
\* caller's feedback.
C25_ResetUsesCallerArguments ==
    (call.op = "applyRasterCalcAB_ABNull" /\ Len(Dispatches) >= 4) =>
        LET e == Dispatches[4]
        IN  /\ e.msg.parameters.v.NO_DATA = call.nodata_val
            /\ e.msg.parameters.v.RTYPE = call.out_type
            /\ e.msg.feedback = feedbackChannel(call.feedback)

----------------------------------------------------------------------------
(* The GRASS helpers that check or load files *)

\* applyRBuffer(in_path,buffer_vals,out_path,context,feedback)
applyRBuffer(files, in_path, buffer_vals, out_path, context, feedback, grass, outcome) ==
    LET digits(v) == CASE v = 0 -> "0" [] v = 100 -> "100" [] OTHER -> "200"
        distances_str == [i \in 1 .. (IF buffer_vals = <<>> THEN 0
                                       ELSE 2 * Len(buffer_vals) - 1) |->
                             IF i % 2 = 1 THEN digits(buffer_vals[(i + 1) \div 2]) ELSE ","]
        parameters == [input |-> in_path, output |-> out_path,
                       distances |-> distances_str, units |-> 0]
    IN  IF ~isfile(files, in_path)
        THEN user_error(<<"Buffer input layer ", in_path, " does not exist">>)
        ELSE applyGrassAlg(Dict(parameters), Str("r.buffer.lowmem"), context, feedback,
                           grass, outcome)

\* applyRCost(start_path,cost_path,cost,out_path,context,feedback)
applyRCost(files, start_path, cost_path, cost, out_path, context, feedback, grass, outcome) ==
    LET parameters == [input |-> cost_path, start_raster |-> start_path,
                       maxcost |-> cost, output |-> out_path, memory |-> 5000]
    IN  IF ~isfile(files, start_path)
        THEN user_error(<<"Dispersion Start Layer ", start_path, " does not exist">>)
        ELSE IF ~isfile(files, cost_path)
        THEN user_error(<<"Dispersion Permeability Raster ", cost_path, " does not exist">>)
        ELSE applyGrassAlg(Dict(parameters), Str("r.cost"), context, feedback,
                           grass, outcome)

\* applyRSeries(layers,aggr_func,range,output,context,feedback): the first
\* statement calls feedback.pushDebugInfo, an AttributeError when feedback
\* is None; after the dispatch the output is loaded in the project.
applyRSeries(files, layers, in_layers, aggr_func, range, output, context, feedback, grass, outcome) ==
    LET parameters == [input |-> in_layers, method |-> <<aggr_func>>, output |-> output,
                       range |-> range]
    IN  IF feedback.t = "None"
        THEN [files |-> files, layers |-> layers, trace |-> <<>>,
              ret |-> Raise("AttributeError")]
        ELSE LET head == <<Ev(feedback.v, "pushDebugInfo", <<"output = ", output>>)>>
                 r == applyGrassAlg(Dict(parameters), Str("r.series"), context, feedback,
                                    grass, outcome)
                 written == IF r.ret.kind = "raise" THEN files
                            ELSE writeRaster(files, output, 0)
                 ld == loadRasterLayer(written, layers, output)
             IN  IF r.ret.kind = "raise"
                 THEN [files |-> files, layers |-> layers, trace |-> head \o r.trace,
                       ret |-> r.ret]
                 ELSE [files |-> written, layers |-> ld.layers,
                       trace |-> head \o r.trace \o ld.trace,
                       ret |-> IF ld.ret.kind = "raise" THEN ld.ret
                               ELSE Return([t |-> "val", v |-> output])]

\* Before a GRASS helper: the input rasters may or may not be on disk.
InitGrass ==
    /\ pc = "ready"
    /\ call = [op |-> "none"]
    /\ trace = <<>>
    /\ ret = Pending
    /\ content \in {<<>>, (InA :> 0), (InA :> 0) @@ (InB :> 0)}
    /\ project = {}
    /\ env \in Envs

\* A call of applyRBuffer, applyRCost or applyRSeries.
CallGrassFileHelper ==
    /\ pc = "ready"
    /\ \E helper \in {"applyRBuffer", "applyRCost", "applyRSeries"},
          context \in Contexts, feedback \in Feedbacks, outcome \in GrassOutcomes(OutPath) :
          LET r == CASE helper = "applyRBuffer" ->
                          applyRBuffer(content, InA, <<0, 100>>, OutPath, context, feedback,
                                       env.grass, outcome)
                     [] helper = "applyRCost" ->
                          applyRCost(content, InA, InB, 100, OutPath, context, feedback,
                                     env.grass, outcome)
                     [] helper = "applyRSeries" ->
                          applyRSeries(content, project, <<InA, InB>>, 4, <<>>, OutPath,
                                       context, feedback, env.grass, outcome)
          IN  /\ call' = [op |-> helper, context |-> context, feedback |-> feedback]
              /\ trace' = r.trace
              /\ ret' = r.ret
              /\ content' = IF helper = "applyRSeries" THEN r.files ELSE content
              /\ project' = IF helper = "applyRSeries" THEN r.layers ELSE project
    /\ pc' = "done"
    /\ UNCHANGED env

NextGrass == CallGrassHelper \/ CallGrassFileHelper

SpecGrass == InitGrass /\ [][NextGrass]_vars

\* The algorithm each GRASS helper is written to dispatch.
HelperAlg ==
    [applyResample |-> "r.resample", applyReclassGdal |-> "r.reclass",
     applyRNull |-> "r.null", applyRSetNull |-> "r.null",
     applyRBuffer |-> "r.buffer.lowmem", applyRCost |-> "r.cost",
     applyRSeries |-> "r.series"]

\* C26: a GRASS helper that passed the GRASS check reaches applyProcessingAlg
\* with the provider grass7, its algorithm name as alg_name and its
\* dictionary as parameters: the dispatch names grass7:<algorithm> and
\* carries a dictionary.
C26_GrassHelperDispatch ==
    (pc = "done" /\ call.op \in DOMAIN HelperAlg /\ Entries # {}) =>
        /\ \A i \in Entries : trace[i].msg[2].t = "dict"
        /\ \E k \in Runs :
              /\ trace[k].msg.name = <<"grass7", ":", HelperAlg[call.op]>>
              /\ trace[k].msg.parameters.t = "dict"

----------------------------------------------------------------------------
(* The GRASS check of applyGrassAlg *)

\* C27: applyGrassAlg checks GRASS before it dispatches.  Without the GRASS
\* utilities or without an installed version the call ends with a user
\* error, nothing of applyProcessingAlg happened (no start notification, no
\* dispatch); with GRASS installed the check comes first and the dispatch
\* after it.
C27_GrassCheckedFirst ==
    (pc = "done" /\ call.op \in {"applyRNull", "applyRSetNull", "applyResample",
                                  "applyReclassGdal"}) =>
        /\ env.grass # "installed" =>
               /\ ret = Raise("CustomException")
               /\ Len(trace) = 1
               /\ trace[1].ch = "utils" /\ trace[1].ev = "user_error"
               /\ Runs = {} /\ Starts = {} /\ Entries = {}
        /\ env.grass = "installed" =>
               /\ trace[1] = Ev("utils", "debug", <<"GRASS version = ", env.grass>>)
               /\ \A i \in Runs \cup Starts \cup Entries : 1 < i

\* applyRNull on a host whose GRASS utilities report no version.
C27_Witness ==
    /\ pc = "done"
    /\ call.op = "applyRNull"
    /\ env.grass = "noversion"
    /\ ret = Raise("CustomException")
    /\ Runs = {}

----------------------------------------------------------------------------
(* applyRasterization, and the overwrite flag *)

\* A variant that never removes the output.
overwriteStep_skipped(files, layers, out_path, overwrite) ==
    [files |-> files, trace |-> <<>>, ret |-> Return(None)]

\* if overwrite: qgsUtils.removeRaster(out_path)
overwriteStep(files, layers, out_path, overwrite) ==
    IF overwrite THEN removeRaster(files, layers, out_path)
    ELSE [files |-> files, trace |-> <<>>, ret |-> Return(None)]

\* applyRasterization(in_path,out_path,extent,resolution,field,burn_val,
\* out_type,nodata_val,all_touch,overwrite,context,feedback); has_extra
\* tells whether the installed gdal:rasterize knows the EXTRA parameter.
applyRasterization(files, layers, in_path, out_path, resolution, burn_val, all_touch, overwrite, context, feedback, has_extra, outcome) ==
    LET head == <<Ev("utils", "debug", <<"applyRasterization">>),
                  Ev("progressFeedback", "setSubText", <<"Rasterize">>)>>
        rm == overwriteStep(files, layers, out_path, overwrite)
        base == [ALL_TOUCH |-> all_touch, BURN |-> burn_val, DATA_TYPE |-> 5,
                 EXTENT |-> None, FIELD |-> None, HEIGHT |-> resolution,
                 INPUT |-> in_path, NODATA |-> nodata_val, OUTPUT |-> out_path,
                 UNITS |-> 1, WIDTH |-> resolution]
        parameters == IF all_touch /\ has_extra
                      THEN ("EXTRA" :> "-at") @@ base
                      ELSE base
        r == applyProcessingAlg("gdal", Str("rasterize"), Dict(parameters),
                                context, feedback, TRUE, outcome)
    IN  IF rm.ret.kind = "raise"
        THEN [files |-> files, trace |-> head \o rm.trace, ret |-> rm.ret]
        ELSE [files |-> filesAfter(rm.files, r),
              trace |-> head \o rm.trace \o r.trace, ret |-> r.ret]

\* A call of applyRasterization.
CallRasterization ==
    /\ pc = "ready"
    /\ \E all_touch \in BOOLEAN, overwrite \in BOOLEAN, has_extra \in BOOLEAN,
          context \in Contexts, feedback \in Feedbacks, outcome \in GdalOutcomes(OutPath) :
          LET r == applyRasterization(content, project, InA, OutPath, 25, 1, all_touch,
                                      overwrite, context, feedback, has_extra, outcome)
          IN  /\ call' = [op |-> "applyRasterization", all_touch |-> all_touch,
                          overwrite |-> overwrite, context |-> context,
                          feedback |-> feedback, before |-> content]
              /\ trace' = r.trace
              /\ content' = r.files
              /\ ret' = r.ret
    /\ pc' = "done"
    /\ UNCHANGED <<project, env>>

NextOverwrite == CallRasterization \/ CallWarpReproject

SpecOverwrite == InitRaster /\ [][NextOverwrite]_vars

\* The helper dispatched its algorithm.
Dispatched ==
    /\ pc = "done"
    /\ call.op \in {"applyRasterization", "applyWarpReproject"}
    /\ Runs # {}

\* C28: when applyRasterization or applyWarpReproject dispatches with
\* overwrite=True, the output raster and its sidecar were removed before:
\* the sidecar is gone, and so is the output when the algorithm raised.
\* With overwrite=False no file was removed: when the algorithm raised the
\* files are those of before the call, and when it returned every file of
\* before is still there.
C28_OverwriteRemovesOutput ==
    Dispatched =>
        /\ call.overwrite =>
               /\ aux_name(OutPath) \notin DOMAIN content
               /\ Raiseds # {} => OutPath \notin DOMAIN content
        /\ ~call.overwrite =>
               /\ DOMAIN call.before \subseteq DOMAIN content
               /\ Raiseds # {} => content = call.before

\* applyRasterization with overwrite=True on an existing output, and the
\* algorithm raised: the output and its sidecar are gone.
C28_Witness ==
    /\ Dispatched
    /\ call.op = "applyRasterization"
    /\ call.overwrite
    /\ OutPath \in DOMAIN call.before
    /\ Raiseds # {}
    /\ OutPath \notin DOMAIN content

----------------------------------------------------------------------------
(* Removing the file of a loaded layer *)

\* A call of removeVectorLayer(path).
CallRemoveVectorLayer ==
    /\ pc = "ready"
    /\ \E path \in RasterPaths :
          LET rm == removeVectorLayer(content, project, path)
          IN  /\ call' = [op |-> "removeVectorLayer", path |-> path, before |-> content]
              /\ trace' = rm.trace
              /\ content' = rm.files
              /\ ret' = rm.ret
    /\ pc' = "done"
    /\ UNCHANGED <<project, env>>

NextRemove == CallRemoveRaster \/ CallRemoveVectorLayer

SpecRemove == InitFiles /\ [][NextRemove]_vars

----------------------------------------------------------------------------
(* qgsUtils.loadVectorLayer and loadRasterLayer: the layers of the project *)

\* The layers the project holds at most.
MaxLayers == 3

\* The files that are loaded: directory, stem, extension.
VectorFile == <<"data", "roads", ".shp">>
RasterFile == <<"data", "dem", ".tif">>
LoadPaths == {VectorFile, RasterFile}

\* The data source URI of a layer on `fname`.  A raster's URI is its path.
\* The URI of an OGR layer is the path, followed or not by '|layername=..'
\* depending on how the host built it.
dataSourceUri(type, fname, with_layername) ==
    IF type = "vector" /\ with_layername
    THEN fname \o <<"|", "layername=" \o fname[2]>>
    ELSE fname

\* uri.rfind('|'): the last position of '|', -1 when there is none.
rfind(uri) ==
    IF \E i \in DOMAIN uri : uri[i] = "|"
    THEN (CHOOSE i \in DOMAIN uri : uri[i] = "|" /\ \A j \in DOMAIN uri : uri[j] = "|" => j <= i) - 1
    ELSE -1

\* pathOfLayer(l): uri[:uri.rfind('|')] for a vector layer, which is the
\* URI without its last element when it holds no '|'; the URI for a raster.
pathOfLayer(l) ==
    IF l.type = "vector"
    THEN LET stop == rfind(l.uri)
         IN  SubSeq(l.uri, 1, IF stop >= 0 THEN stop ELSE Len(l.uri) + stop)
    ELSE l.uri

\* getLayerByFilename(fname): the layers of the project whose path has the
\* parts of fname; the code returns the first of them it meets, None when
\* there is none.
getLayerByFilename(layers, fname) == {l \in layers : pathOfLayer(l) = fname}

\* normalizeEncoding(layer)
normalizeEncoding(layer, platform_sys) ==
    LET path == pathOfLayer(layer)
        extension == IF Len(path) = 3 THEN path[3] ELSE ""
    IN  IF extension = ".shp" /\ platform_sys \in {"Linux", "Darwin"}
        THEN [layer EXCEPT !.encoding = "Latin-1"]
        ELSE IF extension = ".shp" THEN [layer EXCEPT !.encoding = "System"]
        ELSE IF extension = ".gpkg" THEN [layer EXCEPT !.encoding = "UTF-8"]
        ELSE layer

\* The layer object QgsVectorLayer / QgsRasterLayer builds on fname.
newLayer(layers, type, fname, with_layername) ==
    [id |-> Cardinality(layers) + 1, type |-> type, file |-> fname,
     uri |-> dataSourceUri(type, fname, with_layername), encoding |-> "default"]

\* loadVectorLayer(fname,loadProject); `existing` is the layer
\* getLayerByFilename returns when the file is loaded.
loadVectorLayer(files, layers, fname, loadProject, existing, with_layername, valid, platform_sys) ==
    LET head == <<Ev("utils", "debug", <<"loadVectorLayer ", fname>>)>>
        layer == newLayer(layers, "vector", fname, with_layername)
    IN  IF ~isfile(files, fname)
        THEN LET err == user_error(<<"File ", fname, " does not exist">>)
             IN  [layers |-> layers, trace |-> head \o err.trace, ret |-> err.ret]
        ELSE IF getLayerByFilename(layers, fname) # {}
        THEN [layers |-> layers, trace |-> head, ret |-> Return(existing)]
        ELSE IF ~valid
        THEN LET err == user_error(<<"Invalid vector layer '", fname, "'">>)
             IN  [layers |-> layers, trace |-> head \o err.trace, ret |-> err.ret]
        ELSE LET normalized == normalizeEncoding(layer, platform_sys)
             IN  [layers |-> IF loadProject THEN layers \cup {normalized} ELSE layers,
                  trace |-> head, ret |-> Return(normalized)]

\* loadRasterLayer(fname,loadProject), returning the layer object.
loadRasterLayerObject(files, layers, fname, loadProject, existing, valid) ==
    LET rlayer == newLayer(layers, "raster", fname, FALSE)
    IN  IF ~isfile(files, fname)
        THEN LET err == user_error(<<"File ", fname, " does not exist">>)
             IN  [layers |-> layers, trace |-> err.trace, ret |-> err.ret]
        ELSE IF getLayerByFilename(layers, fname) # {}
        THEN [layers |-> layers, trace |-> <<>>, ret |-> Return(existing)]
        ELSE IF ~valid
        THEN LET err == user_error(<<"Invalid raster layer '", fname, "'">>)
             IN  [layers |-> layers, trace |-> err.trace, ret |-> err.ret]
        ELSE [layers |-> IF loadProject THEN layers \cup {rlayer} ELSE layers,
              trace |-> <<>>, ret |-> Return(rlayer)]

\* Before the loads: the files may exist; the project holds no layer, or a
\* layer the user loaded on one of the files.
InitLoad ==
    /\ pc = "ready"
    /\ call = [op |-> "none"]
    /\ trace = <<>>
    /\ ret = Pending
    /\ \E present \in SUBSET LoadPaths : content = [f \in present |-> 0]
    /\ project \in {{}, {newLayer({}, "vector", VectorFile, TRUE)},
                     {newLayer({}, "raster", RasterFile, FALSE)}}
    /\ env \in Envs

\* A call of loadVectorLayer.
CallLoadVectorLayer ==
    /\ pc \in {"ready", "done"}
    /\ Cardinality(project) < MaxLayers
    /\ \E fname \in LoadPaths, loadProject \in BOOLEAN, with_layername \in BOOLEAN,
          valid \in BOOLEAN, platform_sys \in {"Linux", "Windows"} :
       \E existing \in IF getLayerByFilename(project, fname) = {} THEN {None}
                        ELSE getLayerByFilename(project, fname) :
          LET r == loadVectorLayer(content, project, fname, loadProject, existing,
                                   with_layername, valid, platform_sys)
          IN  /\ call' = [op |-> "loadVectorLayer", fname |-> fname,
                          loadProject |-> loadProject, before |-> project]
              /\ trace' = r.trace
              /\ project' = r.layers
              /\ ret' = r.ret
    /\ pc' = "done"
    /\ UNCHANGED <<content, env>>

\* A call of loadRasterLayer.
CallLoadRasterLayer ==
    /\ pc \in {"ready", "done"}
    /\ Cardinality(project) < MaxLayers
    /\ \E fname \in LoadPaths, loadProject \in BOOLEAN, valid \in BOOLEAN :
       \E existing \in IF getLayerByFilename(project, fname) = {} THEN {None}
                        ELSE getLayerByFilename(project, fname) :
          LET r == loadRasterLayerObject(content, project, fname, loadProject, existing,
                                         valid)
          IN  /\ call' = [op |-> "loadRasterLayer", fname |-> fname,
                          loadProject |-> loadProject, before |-> project]
              /\ trace' = r.trace
              /\ project' = r.layers
              /\ ret' = r.ret
    /\ pc' = "done"
    /\ UNCHANGED <<content, env>>

NextLoad == CallLoadVectorLayer \/ CallLoadRasterLayer

SpecLoad == InitLoad /\ [][NextLoad]_vars

\* C30: the project never holds two layers on the same file, and a load of
\* a file the project already holds a layer on returns that layer and
\* leaves the layers of the project as they were.
C30_OneLayerPerFile ==
    /\ \A l1 \in project : \A l2 \in project : l1.file = l2.file => l1 = l2
    /\ (pc = "done" /\ ret.kind = "return"
            /\ \E l \in call.before : l.file = call.fname) =>
           /\ ret.val \in call.before
           /\ ret.val.file = call.fname
           /\ project = call.before

====
